---- MODULE Spec2Model ----
(***************************************************************************)
(* A model of the Cypress-to-Selenium translator (src/unnamed/part_000,    *)
(* lines 695-1616, the latest variant of index.js).  Source text is        *)
(* modelled as sequences of string tokens, syntax trees as records         *)
(* [kind, text, kids].                                                     *)
(***************************************************************************)
EXTENDS Integers, Sequences, FiniteSets, TLC

VARIABLES
    pc,            \* position of the run: "main", "describe", "collect", "walk",
                   \* "extract", "extracted", "convert", "done", "threw" (an
                   \* uncaught error), "hung" (extractChain does not return)
    written,       \* the postfix operators of the expression as written (source text)
    current,       \* extractChain: the node the loop is at
    chain,         \* extractChain: the ChainItems collected so far
    program,       \* the statements of the body that the walker has not visited yet
    i,             \* convertCyChainToJava: the loop index (0-based, as in the source)
    expr,          \* convertCyChainToJava: the statement buffer, a sequence of fragments
    output,        \* output.value of the root visitor, a sequence of tokens
    tempVarIndex,  \* the process-wide temp-variable counter
    indentDepth,   \* the process-wide indentation depth
    driverName,    \* the receiver name of the root visitor ('driver' or 'this')
    ORIGINAL_COMMAND_LIST,  \* the custom-command registry, in insertion order
    file,          \* the input: the describe call (convert) or the statements of
                   \* the commands file (collect)
    memberIndex,   \* how many members of the input have been visited
    exists,        \* BeforeOrAfter[fn].exists of convertDescribeBlock
    member,        \* the member whose body is being walked: [kind, signature]
    methods,       \* convertCypressCommandsToJava: the methods generated so far
    registryFile,  \* the persisted registry (./output/commands.txt), a list of names
    outFile        \* the generated Java file: [written, name, code]

extractVars == <<pc, written, current, chain>>
fileVars == <<file, memberIndex, exists, member, methods, registryFile, outFile>>
convertVars == <<program, i, expr, output, tempVarIndex, indentDepth, driverName,
                 ORIGINAL_COMMAND_LIST, fileVars>>
vars == <<pc, written, current, chain, program, i, expr, output, tempVarIndex,
          indentDepth, driverName, ORIGINAL_COMMAND_LIST, file, memberIndex, exists,
          member, methods, registryFile, outFile>>

\* ------------------------------------------------------------------ bounds

MaxSuffixes == 5
MaxSpin == 5

\* ------------------------------------------------------------ syntax trees

Node(k, t, ks) == [kind |-> k, text |-> t, kids |-> ks]
Identifier(name) == Node("id", name, <<>>)
StringLiteral(t) == Node("str", t, <<>>)
NumericLiteral(t) == Node("num", t, <<>>)
PropertyAccess(e, name) == Node("prop", name, <<e>>)
CallExpression(callee, args) == Node("call", "", <<callee>> \o args)
ElementAccess(e) == Node("elem", "0", <<e>>)

Callee(call) == call.kids[1]
Arguments(call) == Tail(call.kids)

\* A postfix operator as written: ".name", "(args)" or "[0]".
DotSuffix(name) == [s |-> "dot", name |-> name, args |-> <<>>]
CallSuffix(args) == [s |-> "call", name |-> "", args |-> args]
IndexSuffix == [s |-> "index", name |-> "", args |-> <<>>]

\* The parser: postfix operators nest to the left, the last one outermost.
RECURSIVE ParsePostfix(_, _)
ParsePostfix(primary, suffixes) ==
    IF suffixes = <<>> THEN primary
    ELSE LET inner == ParsePostfix(primary, SubSeq(suffixes, 1, Len(suffixes) - 1))
             last == suffixes[Len(suffixes)]
         IN  CASE last.s = "dot" -> PropertyAccess(inner, last.name)
               [] last.s = "call" -> CallExpression(inner, last.args)
               [] OTHER -> ElementAccess(inner)

\* ------------------------------------------------------------ extractChain

ChainItem(method, args) == [method |-> method, args |-> args]

ExtractLoopGuard(n) == n.kind \in {"call", "prop"}

\* One iteration of the while loop on a call expression.
ExtractCallMutant(cur, ch) ==
    LET callee == Callee(cur)
        item == ChainItem(IF callee.kind \in {"prop", "id"} THEN callee.text ELSE "",
                          Arguments(cur))
    IN  [current |-> IF callee.kind = "prop" THEN callee.kids[1]
                     ELSE IF callee.kind = "id" THEN callee ELSE cur,
         chain |-> ch \o <<item>>]
ExtractCall(cur, ch) ==
    LET callee == Callee(cur)
        item == ChainItem(IF callee.kind \in {"prop", "id"} THEN callee.text ELSE "",
                          Arguments(cur))
    IN  [current |-> IF callee.kind = "prop" THEN callee.kids[1]
                     ELSE IF callee.kind = "id" THEN callee ELSE cur,
         chain |-> <<item>> \o ch]

\* One iteration of the while loop on a bare property access.
ExtractProperty(cur, ch) ==
    [current |-> cur.kids[1], chain |-> <<ChainItem(cur.text, <<>>)>> \o ch]

ExtractStepCall ==
    /\ pc = "extract"
    /\ current.kind = "call"
    /\ Callee(current).kind \in {"prop", "id"}
    /\ current' = ExtractCall(current, chain).current
    /\ chain' = ExtractCall(current, chain).chain
    /\ UNCHANGED <<pc, written, convertVars>>

\* The callee is neither a property access nor an identifier: neither branch
\* assigns `current`, an item with method '' is unshifted and the loop goes on.
ExtractStepCallOther ==
    /\ pc = "extract"
    /\ current.kind = "call"
    /\ Callee(current).kind \notin {"prop", "id"}
    /\ Len(chain) < MaxSpin
    /\ current' = ExtractCall(current, chain).current
    /\ chain' = ExtractCall(current, chain).chain
    /\ UNCHANGED <<pc, written, convertVars>>

ExtractStepProperty ==
    /\ pc = "extract"
    /\ current.kind = "prop"
    /\ current' = ExtractProperty(current, chain).current
    /\ chain' = ExtractProperty(current, chain).chain
    /\ UNCHANGED <<pc, written, convertVars>>

ExtractReturn ==
    /\ pc = "extract"
    /\ ~ExtractLoopGuard(current)
    /\ pc' = "extracted"
    /\ UNCHANGED <<written, current, chain, convertVars>>

\* ------------------------------------------- specification of extractChain

SuffixArgs == {<<>>, <<StringLiteral("a")>>, <<StringLiteral("b")>>}
Suffixes ==
    {DotSuffix(n) : n \in {"get", "click"}}
        \cup {CallSuffix(a) : a \in SuffixArgs} \cup {IndexSuffix}

SuffixSeqs == UNION {[1..n -> Suffixes] : n \in 0..MaxSuffixes}

InitExtract ==
    /\ pc = "extract"
    /\ written \in SuffixSeqs
    /\ current = ParsePostfix(Identifier("cy"), written)
    /\ chain = <<>>
    /\ program = <<>>
    /\ i = 0
    /\ expr = <<>>
    /\ output = <<>>
    /\ tempVarIndex = 0
    /\ indentDepth = 0
    /\ driverName = "driver"
    /\ ORIGINAL_COMMAND_LIST = <<>>
    /\ file = <<>>
    /\ memberIndex = 0
    /\ exists = [beforeEach |-> FALSE, afterEach |-> FALSE, before |-> FALSE]
    /\ member = [kind |-> "none", name |-> "", signature |-> <<>>]
    /\ methods = <<>>
    /\ registryFile = <<>>
    /\ outFile = [written |-> FALSE, name |-> "", code |-> <<>>]

NextExtract ==
    \/ ExtractStepCall
    \/ ExtractStepCallOther
    \/ ExtractStepProperty
    \/ ExtractReturn

SpecExtract == InitExtract /\ [][NextExtract]_vars

\* ----------------------------------------------------- extractChain: claims

\* The expression is a chain of verbs on the identifier: every "(args)" directly
\* follows a ".name", and nothing is indexed.
IsVerbChain(w) ==
    \A j \in 1..Len(w) :
        /\ w[j].s # "index"
        /\ w[j].s = "call" => (j > 1 /\ w[j - 1].s = "dot")

\* The verbs of a written chain, read left to right.
RECURSIVE VerbsOf(_)
VerbsOf(w) ==
    IF w = <<>> THEN <<>>
    ELSE IF Len(w) >= 2 /\ w[2].s = "call"
         THEN <<ChainItem(w[1].name, w[2].args)>> \o VerbsOf(SubSeq(w, 3, Len(w)))
         ELSE <<ChainItem(w[1].name, <<>>)>> \o VerbsOf(Tail(w))

\* C5: for a chain of N verbs (calls or bare property accesses) written left to
\* right on an identifier, extractChain returns exactly the N items in written
\* order, each with its call's arguments (none for a bare property access); a
\* bare identifier yields the empty list.
C5_ExtractOrderPreserving ==
    (pc = "extracted" /\ IsVerbChain(written)) => chain = VerbsOf(written)

C5_Witness ==
    /\ pc = "extracted"
    /\ written = <<DotSuffix("get"), CallSuffix(<<StringLiteral("a")>>),
                   DotSuffix("click"), DotSuffix("get"), CallSuffix(<<StringLiteral("b")>>)>>
    /\ Len(chain) = 3

\* C6: extractChain terminates on every expression node.  The loop is
\* deterministic in `current`, so it terminates exactly when every iteration
\* entered with the loop guard true moves `current` to another node.
C6_ExtractTerminates ==
    [][(pc = "extract" /\ ExtractLoopGuard(current)) => current' # current]_vars

\* ------------------------------------------------------------------- text

TAB_SIZE == 4

RECURSIVE Repeat(_, _)
Repeat(str, n) == IF n <= 0 THEN "" ELSE str \o Repeat(str, n - 1)

\* getIndent(): ' '.repeat(TAB_SIZE * indentDepth), as tokens.
getIndent(depth) == IF depth = 0 THEN <<>> ELSE <<Repeat(" ", TAB_SIZE * depth)>>

\* The replace chain of escapeJavaString on the texts the inputs use: a double
\* quote becomes backslash + double quote.
EscapeText(t) ==
    CASE t = "[name=\"q\"]" -> "[name=\\\"q\\\"]"
      [] OTHER -> t

\* node.getText(): the source text of an argument.
GetText(node) ==
    CASE node.kind = "str" -> "'" \o node.text \o "'"
      [] node.kind = "arrow" -> "() => {...}"
      [] node.kind = "obj" -> "{...}"
      [] OTHER -> node.text

\* escapeJavaString(node) of a node that is there.
escapeJavaString(node) ==
    IF node.kind = "str" THEN "\"" \o EscapeText(node.text) \o "\""
    ELSE GetText(node)

\* argText.replace(/^"(.*)"$/g, '$1') of escapeJavaString(node).
StripQuotes(node) ==
    IF node.kind = "str" THEN EscapeText(node.text) ELSE GetText(node)

RECURSIVE JoinTexts(_)
JoinTexts(args) ==
    IF args = <<>> THEN ""
    ELSE IF Len(args) = 1 THEN GetText(args[1])
    ELSE GetText(args[1]) \o ", " \o JoinTexts(Tail(args))

restorationChain(item) == "." \o item.method \o "(" \o JoinTexts(item.args) \o ")"

\* `/* unsupported <verb> syntax(<call text>) */`
UnsupportedSyntax(item) ==
    <<"/* unsupported ", item.method, " syntax(", restorationChain(item), ") */">>

\* ------------------------------------------------------ the statement buffer

\* expr[expr.length - 1] read: undefined on an empty array.
LastFragment(buf) == IF buf = <<>> THEN <<"undefined">> ELSE buf[Len(buf)]

\* expr[expr.length - 1] = f: on an empty array this sets the property "-1",
\* which is no element.
SetLast(buf, f) == IF buf = <<>> THEN buf ELSE [buf EXCEPT ![Len(buf)] = f]

AppendLast(buf, toks) == SetLast(buf, LastFragment(buf) \o toks)

FindToken(k) == ".findElement" \o Repeat("s", k)

\* An escaped selector whose own text holds "findElement".
FindSelector(k) == "\"#findElement" \o Repeat("s", k) \o "\""

\* The token holds the text "findElement".
IsFindToken(frag, t) ==
    \E k \in 0..Len(frag) : t = FindToken(k) \/ t = FindSelector(k)

\* The token with an "s" put after its "findElement".
PluralToken(frag, t) ==
    IF \E k \in 0..Len(frag) : t = FindSelector(k)
    THEN FindSelector(1 + CHOOSE k \in 0..Len(frag) : t = FindSelector(k))
    ELSE t \o "s"

\* frag.replace(/(.*)findElement/g, '$1findElements'): on every line the last
\* occurrence of "findElement" gets an "s", wherever in the text it is.
ReplaceFindElement(frag) ==
    [j \in 1..Len(frag) |->
        IF /\ IsFindToken(frag, frag[j])
           /\ \A k \in (j + 1)..Len(frag) :
                  IsFindToken(frag, frag[k]) =>
                      \E m \in (j + 1)..(k - 1) : frag[m] = "\n"
        THEN PluralToken(frag, frag[j])
        ELSE frag[j]]

\* expr.join(';\n' + getIndent()) + ';'
RECURSIVE JoinFragments(_, _)
JoinFragments(buf, depth) ==
    IF buf = <<>> THEN <<>>
    ELSE IF Len(buf) = 1 THEN buf[1]
    ELSE buf[1] \o <<";", "\n">> \o getIndent(depth) \o JoinFragments(Tail(buf), depth)

JoinStatement(buf, depth) == JoinFragments(buf, depth) \o <<";">>

ToStr(n) == ToString(n)

\* ---------------------------------------- convertCyChainToJava: the handlers

\* The state a handler works on: the statement buffer, the root output, the
\* stack of innerStatements buffers of the callbacks being translated, the two
\* process-wide counters and how the run stands ("ok", "threw", "hung").
TState(buf, out, tvi, depth) ==
    [expr |-> buf, output |-> out, inner |-> <<>>, tempVarIndex |-> tvi,
     indentDepth |-> depth, status |-> "ok"]

Throw(T) == [T EXCEPT !.status = "threw"]

HasArg(item) == Len(item.args) >= 1

ElementVar(n) == "element" \o ToStr(n)
ElementsVar(n) == "elements" \o ToStr(n)
ScopeVar(n) == "scopeElement" \o ToStr(n)

\* case 'get' / 'find', and 'contains' where it is no assertion.
\* escapeJavaString(undefined) is a TypeError.
caseGet(T, item) ==
    IF ~HasArg(item) THEN Throw(T)
    ELSE LET selectorExpr ==
                 IF item.method = "contains"
                 THEN <<"By.xpath(\"//*[contains(text(), '", StripQuotes(item.args[1]),
                        "')]\")">>
                 ELSE <<"By.cssSelector(", escapeJavaString(item.args[1]), ")">>
         IN  [T EXCEPT !.expr =
                  AppendLast(T.expr, <<FindToken(0), "(">> \o selectorExpr \o <<")">>)]

\* case 'contains': the last item of a chain of more than one item is an assertion.
caseContainsMutant(T, item, idx, n) ==
    IF idx = n - 1
    THEN IF ~HasArg(item) THEN Throw(T)
         ELSE LET v == ElementVar(T.tempVarIndex)
              IN  [T EXCEPT
                      !.expr = Append(
                          SetLast(T.expr, <<"WebElement ", v, " = ">> \o LastFragment(T.expr)),
                          <<"AssertJUnit.assertTrue(", v, ".getText().contains(",
                            escapeJavaString(item.args[1]), "))">>),
                      !.tempVarIndex = @ + 1]
    ELSE caseGet(T, item)

caseContains(T, item, idx, n) ==
    IF idx # 0 /\ idx = n - 1
    THEN IF ~HasArg(item) THEN Throw(T)
         ELSE LET v == ElementVar(T.tempVarIndex)
              IN  [T EXCEPT
                      !.expr = Append(
                          SetLast(T.expr, <<"WebElement ", v, " = ">> \o LastFragment(T.expr)),
                          <<"AssertJUnit.assertTrue(", v, ".getText().contains(",
                            escapeJavaString(item.args[1]), "))">>),
                      !.tempVarIndex = @ + 1]
    ELSE caseGet(T, item)

caseEq(T, item) ==
    IF ~HasArg(item) \/ item.args[1].kind # "num"
    THEN [T EXCEPT !.expr = AppendLast(T.expr,
              UnsupportedSyntax(item))]
    ELSE [T EXCEPT !.expr =
              AppendLast(SetLast(T.expr, ReplaceFindElement(LastFragment(T.expr))),
                         <<".get(" \o item.args[1].text \o ")">>)]

caseFirst(T, item) ==
    [T EXCEPT !.expr =
        AppendLast(SetLast(T.expr, ReplaceFindElement(LastFragment(T.expr))),
                   <<".get(0)">>)]

caseLastMutant(T, item) ==
    LET v == ElementsVar(T.tempVarIndex)
    IN  [T EXCEPT
            !.expr = Append(
                SetLast(T.expr, <<"List<WebElement> ", v, " = ">>
                                    \o ReplaceFindElement(LastFragment(T.expr))),
                <<v, ".get(", v, ".size() - 1)">>)]
caseLast(T, item) ==
    LET v == ElementsVar(T.tempVarIndex)
    IN  [T EXCEPT
            !.expr = Append(
                SetLast(T.expr, <<"List<WebElement> ", v, " = ">>
                                    \o ReplaceFindElement(LastFragment(T.expr))),
                <<v, ".get(", v, ".size() - 1)">>),
            !.tempVarIndex = @ + 1]

caseClick(T, item) == [T EXCEPT !.expr = AppendLast(T.expr, <<".click()">>)]

\* typeText.replaceAll(key, `" + ${SPECIAL_KEY_MAP[key]} + "`) on the texts the
\* inputs use.
ReplaceSpecialKeys(t) ==
    CASE t = "\"bob{enter}\"" -> "\"bob\" + Keys.ENTER + \"\""
      [] OTHER -> t

caseType(T, item) ==
    IF ~HasArg(item) THEN Throw(T)
    ELSE [T EXCEPT !.expr = AppendLast(T.expr,
              <<".sendKeys(", ReplaceSpecialKeys(escapeJavaString(item.args[1])), ")">>)]

\* should('not.exist'): the lookup is wrapped in try / fail / catch.
shouldNotExistMutant(T) ==
    [T EXCEPT !.expr =
        SetLast(T.expr, <<"try {">>)
            \o << <<Repeat(" ", TAB_SIZE)>> \o LastFragment(T.expr),
                  <<"} catch (NoSuchElementException e) {}">> >>]

shouldNotExist(T) ==
    [T EXCEPT !.expr =
        SetLast(T.expr, <<"try {">>)
            \o << <<Repeat(" ", TAB_SIZE)>> \o LastFragment(T.expr),
                  <<Repeat(" ", TAB_SIZE),
                    "AssertJUnit.fail(\"Element should not exist\")">>,
                  <<"} catch (NoSuchElementException e) {}">> >>]

\* should('be.visible') and should('not.be.visible'): the element is kept in
\* a temp variable, asserted on, and stays the receiver.
shouldAssertMutant(T, assertMethod) ==
    LET v == ElementVar(T.tempVarIndex)
    IN  [T EXCEPT
            !.expr = SetLast(T.expr, <<"WebElement ", v, " = ">> \o LastFragment(T.expr))
                         \o << <<"AssertJUnit." \o assertMethod \o "(", v,
                                 ".isDisplayed())">> >>,
            !.tempVarIndex = @ + 1]

shouldAssert(T, assertMethod) ==
    LET v == ElementVar(T.tempVarIndex)
    IN  [T EXCEPT
            !.expr = SetLast(T.expr, <<"WebElement ", v, " = ">> \o LastFragment(T.expr))
                         \o << <<"AssertJUnit." \o assertMethod \o "(", v,
                                 ".isDisplayed())">>,
                               <<v>> >>,
            !.tempVarIndex = @ + 1]

\* should() with a condition outside the switch: a diagnostic, and nothing else.
shouldUnsupportedMutant(T, item) ==
    [T EXCEPT !.expr = Append(T.expr,
        <<"/* unsupported ", "should", " condition: ", item.args[1].text, "(",
          restorationChain(item), ") */">>)]

shouldUnsupported(T, item) ==
    [T EXCEPT !.expr = AppendLast(T.expr,
        <<"/* unsupported ", "should", " condition: ", item.args[1].text, "(",
          restorationChain(item), ") */">>)]

caseShould(T, item) ==
    IF ~HasArg(item) \/ item.args[1].kind # "str"
    THEN [T EXCEPT !.expr = AppendLast(T.expr,
              UnsupportedSyntax(item))]
    ELSE CASE item.args[1].text = "be.visible" -> shouldAssert(T, "assertTrue")
           [] item.args[1].text = "not.be.visible" -> shouldAssert(T, "assertFalse")
           [] item.args[1].text = "not.exist" -> shouldNotExist(T)
           [] OTHER -> shouldUnsupported(T, item)

caseVisit(T, item) ==
    IF ~HasArg(item) THEN Throw(T)
    ELSE [T EXCEPT !.expr =
              AppendLast(T.expr, <<".get(", escapeJavaString(item.args[1]), ")">>)]

caseWait(T, item, drv) ==
    IF ~HasArg(item)
    THEN [T EXCEPT !.expr = AppendLast(T.expr,
              UnsupportedSyntax(item))]
    ELSE [T EXCEPT !.expr =
              T.expr \o << <<"Thread.sleep(", escapeJavaString(item.args[1]), ")">>,
                           <<drv>> >>]

InList(list, x) == \E k \in 1..Len(list) : list[k] = x

\* The default case, with ORIGINAL_COMMAND_LIST as it stands.
caseDefaultMutant(T, item, commands) ==
    IF InList(commands, item.method)
    THEN [T EXCEPT !.expr = AppendLast(T.expr,
              <<"." \o item.method \o "(" \o JoinTexts(item.args) \o ")">>)]
    ELSE Throw(T)
caseDefault(T, item, commands) ==
    IF InList(commands, item.method)
    THEN [T EXCEPT !.expr = AppendLast(T.expr,
              <<"." \o item.method \o "(" \o JoinTexts(item.args) \o ")">>)]
    ELSE [T EXCEPT !.expr = AppendLast(T.expr,
              <<"/* unsupported ", "method: ", item.method, "(",
                restorationChain(item), ") */">>)]

\* ---------------------------------------------------- case 'request'

ToUpperCase(t) ==
    CASE t = "post" -> "POST"
      [] t = "get" -> "GET"
      [] OTHER -> t

\* val.replace(/['"]/g, '') of escapeJavaString(node).
StripAllQuotes(node) == IF node.kind = "str" THEN node.text ELSE GetText(node)

AddBody(B, fragment) == [B EXCEPT !.body = Append(@, fragment)]

\* visitProperty(prop, parentName), on B = [body, tempVarIndex].
RECURSIVE visitProperty(_, _, _)
RECURSIVE visitProperties(_, _, _)
visitPropertyMutant(B, prop, parentName) ==
    IF prop.kind # "propassign" THEN B
    ELSE LET key == "\"" \o prop.text \o "\""
             init == prop.kids[1]
         IN  IF init.kind = "obj"
             THEN LET tempVarName == key \o "Inner" \o ToStr(B.tempVarIndex)
                      B1 == [body |-> B.body \o
                                 << <<"JsonObject ", tempVarName, " = ", "new JsonObject()">>,
                                    <<parentName, ".add(", key, ", ", tempVarName, ")">> >>,
                             tempVarIndex |-> B.tempVarIndex + 1]
                  IN  visitProperties(B1, init.kids, tempVarName)
             ELSE [B EXCEPT !.body = Append(@,
                      <<parentName, ".addProperty(", key, ", ",
                        escapeJavaString(init), ")">>)]

visitProperty(B, prop, parentName) ==
    IF prop.kind # "propassign" THEN B
    ELSE LET key == "\"" \o prop.text \o "\""
             init == prop.kids[1]
         IN  IF init.kind = "obj"
             THEN LET tempVarName == key \o "Inner" \o ToStr(B.tempVarIndex)
                      B1 == [body |-> Append(B.body,
                                 <<"JsonObject ", tempVarName, " = ", "new JsonObject()">>),
                             tempVarIndex |-> B.tempVarIndex + 1]
                  IN  AddBody(visitProperties(B1, init.kids, tempVarName),
                              <<parentName, ".add(", key, ", ", tempVarName, ")">>)
             ELSE [B EXCEPT !.body = Append(@,
                      <<parentName, ".addProperty(", key, ", ",
                        escapeJavaString(init), ")">>)]

visitProperties(B, props, parentName) ==
    IF props = <<>> THEN B
    ELSE visitProperties(visitProperty(B, props[1], parentName), Tail(props), parentName)

\* After the body's properties: the serialize-to-string statement.
BodyBuilt(R, B) ==
    [R EXCEPT !.body = Append(B.body,
                  <<"String ", "inputString", " = ", "jsonObject.toString()">>),
              !.tempVarIndex = B.tempVarIndex]

\* options.properties.forEach(...), on R = [url, method, body, tempVarIndex].
RECURSIVE RequestOptions(_, _)
RequestOptions(R, props) ==
    IF props = <<>> THEN R
    ELSE LET p == props[1]
             val == escapeJavaString(p.kids[1])
             R1 == IF p.kind # "propassign" THEN R
                   ELSE IF p.text = "url" THEN [R EXCEPT !.url = val]
                   ELSE IF p.text = "method"
                   THEN [R EXCEPT !.method = StripAllQuotes(p.kids[1])]
                   ELSE IF p.text = "body"
                   THEN IF p.kids[1].kind = "obj"
                        THEN BodyBuilt(R, visitProperties(
                                 [body |-> Append(R.body,
                                      <<"JsonObject ", "jsonObject", " = ",
                                        "new JsonObject()">>),
                                  tempVarIndex |-> R.tempVarIndex],
                                 p.kids[1].kids, "jsonObject"))
                        ELSE [R EXCEPT !.body = Append(@,
                                 <<"String ", "inputString", " = ", val>>)]
                   ELSE R
         IN  RequestOptions(R1, Tail(props))

\* The fragments of a request with an options object.
RequestBlockMutant(T0, R) ==
    LET head == << <<"HttpURLConnection ", "conn", " = ",
                     "(HttpURLConnection) new URL(", R.url, ").openConnection()">>,
                   <<"conn.setRequestMethod(\"" \o R.method \o "\")">> >>
        write == << <<"conn.setDoOutput(true)">> >> \o R.body \o
                 << <<"try(OutputStream os = conn.getOutputStream()) {">>,
                    <<Repeat(" ", TAB_SIZE), "byte[] ", "input", " = ",
                      "inputString.getBytes(\"utf-8\")">>,
                    <<Repeat(" ", TAB_SIZE), "os.write(input, 0, input.length)">>,
                    <<"}">> >>
    IN  [T0 EXCEPT
            !.expr = @ \o head \o (IF Len(R.body) > 0 THEN write ELSE <<>>),
            !.tempVarIndex = R.tempVarIndex]

RequestBlock(T0, R) ==
    LET head == << <<"HttpURLConnection ", "conn", " = ",
                     "(HttpURLConnection) new URL(", R.url, ").openConnection()">>,
                   <<"conn.setRequestMethod(\"" \o ToUpperCase(R.method) \o "\")">> >>
        write == << <<"conn.setDoOutput(true)">> >> \o R.body \o
                 << <<"try(OutputStream os = conn.getOutputStream()) {">>,
                    <<Repeat(" ", TAB_SIZE), "byte[] ", "input", " = ",
                      "inputString.getBytes(\"utf-8\")">>,
                    <<Repeat(" ", TAB_SIZE), "os.write(input, 0, input.length)">>,
                    <<"}">> >>
    IN  [T0 EXCEPT
            !.expr = @ \o head \o (IF Len(R.body) > 0 THEN write ELSE <<>>),
            !.tempVarIndex = R.tempVarIndex]

caseRequestMutant(T, item, idx) ==
    LET T0 == [T EXCEPT !.expr = <<>>]
    IN  IF ~HasArg(item) THEN Throw(T0)
        ELSE LET options == item.args[1]
             IN  IF options.kind \in {"str", "template"}
                 THEN [T0 EXCEPT !.expr = @ \o
                          << <<"HttpURLConnection ", "conn", " = ",
                               "(HttpURLConnection) new URL(",
                               escapeJavaString(options), ").openConnection()">>,
                             <<"conn.setRequestMethod(\"GET\")">> >>]
                 ELSE IF options.kind = "obj"
                 THEN RequestBlock(T0, RequestOptions(
                          [url |-> "", method |-> "GET", body |-> <<>>,
                           tempVarIndex |-> T0.tempVarIndex], options.kids))
                 ELSE [T0 EXCEPT !.expr = Append(@,
                          UnsupportedSyntax(item))]

caseRequest(T, item, idx) ==
    LET T0 == IF idx = 0 THEN [T EXCEPT !.expr = <<>>] ELSE T
    IN  IF ~HasArg(item) THEN Throw(T0)
        ELSE LET options == item.args[1]
             IN  IF options.kind \in {"str", "template"}
                 THEN [T0 EXCEPT !.expr = @ \o
                          << <<"HttpURLConnection ", "conn", " = ",
                               "(HttpURLConnection) new URL(",
                               escapeJavaString(options), ").openConnection()">>,
                             <<"conn.setRequestMethod(\"GET\")">> >>]
                 ELSE IF options.kind = "obj"
                 THEN RequestBlock(T0, RequestOptions(
                          [url |-> "", method |-> "GET", body |-> <<>>,
                           tempVarIndex |-> T0.tempVarIndex], options.kids))
                 ELSE [T0 EXCEPT !.expr = Append(@,
                          UnsupportedSyntax(item))]

\* ------------------------------------------------ convertExpectChainToJava

RECURSIVE JoinMethods(_)
JoinMethods(ch) ==
    IF ch = <<>> THEN ""
    ELSE IF Len(ch) = 1 THEN ch[1].method
    ELSE ch[1].method \o "." \o JoinMethods(Tail(ch))

\* case 'deep', on X = [target, matcher, args, ret]: followed by equal/eq it
\* takes that item's arguments and the loop skips the item.  `next` is the
\* index the loop goes on with.
caseDeepMutant(ch, idx, X) ==
    IF idx + 1 <= Len(ch) /\ ch[idx + 1].method \in {"equal", "eq"}
    THEN [X |-> [X EXCEPT !.matcher = "equals", !.args = ch[idx].args], next |-> idx + 2]
    ELSE [X |-> X, next |-> idx + 1]
caseDeep(ch, idx, X) ==
    IF idx + 1 <= Len(ch) /\ ch[idx + 1].method \in {"equal", "eq"}
    THEN [X |-> [X EXCEPT !.matcher = "equals", !.args = ch[idx + 1].args],
          next |-> idx + 2]
    ELSE [X |-> X, next |-> idx + 1]

\* The cases that are no-ops for chaining methods.
ConnectivesMutant == {"to", "be", "and", "have", "that"}

Connectives == {"to", "be", "and", "have", "that", "with"}

\* The for loop, on X = [target, matcher, args, ret]; ret is the text of an
\* early return, <<>> while there is none.  idx is 1-based.
RECURSIVE ExpectLoop(_, _, _)
ExpectLoop(ch, idx, X) ==
    IF idx > Len(ch) \/ X.ret # <<>> THEN X
    ELSE LET method == ch[idx].method
             currentArgs == ch[idx].args
         IN  CASE method = "expect" ->
                    IF Len(currentArgs) < 1
                    THEN [X EXCEPT !.ret = <<"/* expect() without arguments */">>]
                    ELSE ExpectLoop(ch, idx + 1,
                             [X EXCEPT !.target = escapeJavaString(currentArgs[1])])
               [] method \in Connectives -> ExpectLoop(ch, idx + 1, X)
               [] method = "true" -> ExpectLoop(ch, idx + 1, [X EXCEPT !.matcher = "isTrue"])
               [] method = "false" -> ExpectLoop(ch, idx + 1, [X EXCEPT !.matcher = "isFalse"])
               [] method \in {"null", "undefined"} ->
                    ExpectLoop(ch, idx + 1, [X EXCEPT !.matcher = "isNull"])
               [] method \in {"eq", "equal"} ->
                    ExpectLoop(ch, idx + 1,
                        [X EXCEPT !.matcher = "equals", !.args = currentArgs])
               [] method = "deep" ->
                    ExpectLoop(ch, caseDeep(ch, idx, X).next, caseDeep(ch, idx, X).X)
               [] method \in {"lessThan", "greaterThan"} ->
                    IF Len(currentArgs) < 1
                    THEN [X EXCEPT !.ret =
                             <<"/* expect()." \o method \o "() without arguments */">>]
                    ELSE ExpectLoop(ch, idx + 1,
                             [X EXCEPT !.matcher = "isTrue",
                                       !.target = @ \o (IF method = "lessThan"
                                                        THEN " < " ELSE " > ")
                                                    \o escapeJavaString(currentArgs[1])])
               [] OTHER ->
                    [X EXCEPT !.ret = <<"// Unsupported expect chain: " \o JoinMethods(ch)>>]

convertExpectChainToJava(ch, depth) ==
    IF ch = <<>> THEN <<>>
    ELSE LET X == ExpectLoop(ch, 1,
                      [target |-> "", matcher |-> "", args |-> <<>>, ret |-> <<>>])
             expected == IF X.args = <<>> THEN "/* missing expected */"
                         ELSE GetText(X.args[1])
             code == CASE X.matcher = "isTrue" ->
                            <<"AssertJUnit.assertTrue(", X.target, ");">>
                       [] X.matcher = "isFalse" ->
                            <<"AssertJUnit.assertFalse(", X.target, ");">>
                       [] X.matcher = "isNull" ->
                            <<"AssertJUnit.assertNull(", X.target, ");">>
                       [] X.matcher = "equals" ->
                            <<"AssertJUnit.assertEquals(", expected, ", ", X.target, ");">>
                       [] OTHER -> <<"// Unsupported matcher in expect: " \o X.matcher>>
         IN  IF X.ret # <<>> THEN X.ret ELSE getIndent(depth) \o code

\* ------------------------------------- the walker and the callback handlers

\* extractChain as the walker calls it on a nested call expression: the loop
\* run to its end; hung when an iteration leaves `current` where it was.
RECURSIVE ExtractLoop(_, _)
ExtractLoop(cur, ch) ==
    IF ~ExtractLoopGuard(cur) THEN [hung |-> FALSE, chain |-> ch]
    ELSE IF cur.kind = "prop"
    THEN ExtractLoop(ExtractProperty(cur, ch).current, ExtractProperty(cur, ch).chain)
    ELSE IF Callee(cur).kind \in {"prop", "id"}
    THEN ExtractLoop(ExtractCall(cur, ch).current, ExtractCall(cur, ch).chain)
    ELSE [hung |-> TRUE, chain |-> ch]

\* A visitor made by createVisitNode(output, driverName, visitFunc): level 0
\* writes to the root output, level k > 0 to the k-th innerStatements buffer.
Visitor(level, name) == [level |-> level, driverName |-> name]

\* E = [driverName, commands]: the root visitor's receiver and the registry.
\* getVisitFunc() is `visitFunc ?? visitNode`.  The root visitor is made with
\* visitFunc = visit (convertDescribeBlock) or without one (collect), and every
\* inner visitor is made with the getVisitFunc() of the visitor that translated
\* the enclosing chain: it is the root visitor in all of them.
getVisitFunc(V, E) == Visitor(0, E.driverName)

Emit(T, level, toks) ==
    IF T.status # "ok" THEN T
    ELSE IF level = 0 THEN [T EXCEPT !.output = @ \o toks]
    ELSE [T EXCEPT !.inner[level] = @ \o toks]

Indented(T, by) == IF T.status # "ok" THEN T ELSE [T EXCEPT !.indentDepth = @ + by]

FunctionLike(item) == HasArg(item) /\ item.args[1].kind = "arrow"

RECURSIVE visitNode(_, _, _, _)
RECURSIVE forEachChild(_, _, _, _)
RECURSIVE convertCyChainLoop(_, _, _, _, _)
RECURSIVE HandleItem(_, _, _, _, _)

\* body.forEachChild(innerVisitNode) of a then/within callback, into a new
\* innerStatements buffer, which stays on top of T.inner.
CallbackBody(T, cb, name, E) ==
    forEachChild([T EXCEPT !.inner = Append(@, <<>>)], cb.kids[1].kids,
                 Visitor(Len(T.inner) + 1, name), E)

TopInner(T) == T.inner[Len(T.inner)]
PopInner(T) == [T EXCEPT !.inner = SubSeq(@, 1, Len(@) - 1)]

\* After the callback body: expr.push(innerStatements.value).
ThenPush(T1) ==
    IF T1.status # "ok" THEN T1
    ELSE PopInner([T1 EXCEPT !.expr = Append(@, TopInner(T1))])

caseThen(T, item, drv, E) ==
    IF FunctionLike(item)
    THEN ThenPush(CallbackBody(T, item.args[1], drv, E))
    ELSE [T EXCEPT !.expr = Append(@,
             UnsupportedSyntax(item))]

\* After the callback body: the last fragment becomes the declaration of the
\* scope variable, then the nested text and the variable are pushed.
WithinPushMutant(T1, tempVar, parentSelector) ==
    IF T1.status # "ok" THEN T1
    ELSE PopInner([T1 EXCEPT !.expr =
             SetLast(T1.expr, <<"WebElement ", tempVar, " = ">> \o parentSelector)
                 \o <<TopInner(T1)>>])
WithinPush(T1, tempVar, parentSelector) ==
    IF T1.status # "ok" THEN T1
    ELSE PopInner([T1 EXCEPT !.expr =
             SetLast(T1.expr, <<"WebElement ", tempVar, " = ">> \o parentSelector)
                 \o <<TopInner(T1), <<tempVar>> >>])

caseWithin(T, item, drv, E) ==
    IF FunctionLike(item)
    THEN WithinPush(CallbackBody([T EXCEPT !.tempVarIndex = @ + 1], item.args[1],
                                 ScopeVar(T.tempVarIndex), E),
                    ScopeVar(T.tempVarIndex), LastFragment(T.expr))
    ELSE [T EXCEPT !.tempVarIndex = @ + 1]

\* The switch of convertCyChainToJava on chain[idx] (idx is 0-based).
HandleItem(T, ch, idx, drv, E) ==
    LET item == ch[idx + 1]
        method == item.method
    IN  CASE method = "contains" -> caseContains(T, item, idx, Len(ch))
          [] method \in {"get", "find"} -> caseGet(T, item)
          [] method = "eq" -> caseEq(T, item)
          [] method = "first" -> caseFirst(T, item)
          [] method = "last" -> caseLast(T, item)
          [] method = "click" -> caseClick(T, item)
          [] method = "type" -> caseType(T, item)
          [] method = "should" -> caseShould(T, item)
          [] method = "visit" -> caseVisit(T, item)
          [] method = "request" -> caseRequest(T, item, idx)
          [] method = "then" -> caseThen(T, item, drv, E)
          [] method = "within" -> caseWithin(T, item, drv, E)
          [] method = "wait" -> caseWait(T, item, drv)
          [] OTHER -> caseDefault(T, item, E.commands)

convertCyChainLoop(T, ch, idx, drv, E) ==
    IF idx >= Len(ch) \/ T.status # "ok" THEN T
    ELSE convertCyChainLoop(HandleItem(T, ch, idx, drv, E), ch, idx + 1, drv, E)

\* The return of convertCyChainToJava: the joined text; the buffer was the
\* call's own, the caller's buffer is as it was.
ChainResult(T, T1) ==
    [state |-> [T1 EXCEPT !.expr = T.expr],
     text |-> JoinStatement(T1.expr, T1.indentDepth)]

convertCyChainToJava(T, ch, drv, E) ==
    ChainResult(T, convertCyChainLoop([T EXCEPT !.expr = << <<drv>> >>], ch, 0, drv, E))

convertChainToJava(T, ch, drv, E) ==
    IF ch[1].method = "expect"
    THEN [state |-> T, text |-> convertExpectChainToJava(ch, T.indentDepth)]
    ELSE convertCyChainToJava(T, ch, drv, E)

\* output.value += getIndent() + `${javaChain}\n`
EmitChain(r, V) ==
    Emit(r.state, V.level, getIndent(r.state.indentDepth) \o r.text \o <<"\n">>)

\* A control-flow statement: the header, the body at indent + 1 through
\* getVisitFunc(), the closing brace.
OpenBlock(T, V, header) ==
    Indented(Emit(T, V.level, getIndent(T.indentDepth) \o header \o <<"\n">>), 1)

CloseBlockMutant(T, V) ==
    Emit(T, V.level, getIndent(T.indentDepth - 1) \o <<"}", "\n">>)

CloseBlock(T, V) ==
    Emit(Indented(T, -1), V.level, getIndent(T.indentDepth - 1) \o <<"}", "\n">>)

visitBlockOf(T, V, header, stmt, E) ==
    CloseBlock(visitNode(OpenBlock(T, V, header), getVisitFunc(V, E), stmt, E), V)

Header(node) ==
    CASE node.kind = "if" -> <<"if (", node.text, ") {">>
      [] node.kind = "for" -> <<"for (", node.text, ") {">>
      [] OTHER -> <<"while (", node.text, ") {">>

visitElse(T, V, node, E) ==
    IF node.kind = "if" /\ Len(node.kids) > 1
    THEN visitBlockOf(T, V, <<"else {">>, node.kids[2], E)
    ELSE T

visitCall(T, V, ex, E) ==
    IF ex.hung THEN [T EXCEPT !.status = "hung"]
    ELSE EmitChain(convertChainToJava(T, ex.chain, V.driverName, E), V)

visitNode(T, V, node, E) ==
    IF T.status # "ok" THEN T
    ELSE CASE node.kind = "call" -> visitCall(T, V, ExtractLoop(node, <<>>), E)
           [] node.kind \in {"if", "for", "while"} ->
                visitElse(visitBlockOf(T, V, Header(node), node.kids[1], E), V, node, E)
           [] OTHER -> forEachChild(T, node.kids, getVisitFunc(V, E), E)

forEachChild(T, kids, V, E) ==
    IF kids = <<>> THEN T
    ELSE forEachChild(visitNode(T, V, kids[1], E), Tail(kids), V, E)

\* ------------------------------------------------- the translator's steps

Env == [driverName |-> driverName, commands |-> ORIGINAL_COMMAND_LIST]
Now == TState(expr, output, tempVarIndex, indentDepth)

KnownVerbs ==
    {"contains", "get", "find", "eq", "first", "last", "click", "type", "should",
     "visit", "request", "then", "within", "wait"}

\* visitNode reaches a call expression, as the child of an expression
\* statement or as the concise body of a command.
IsCallStatement(node) ==
    node.kind = "call" \/ (node.kind = "exprstmt" /\ node.kids[1].kind = "call")
CallOf(node) == IF node.kind = "call" THEN node ELSE node.kids[1]

\* The root visitor reaches a call-expression statement: extractChain starts.
VisitCallStatement ==
    /\ pc = "walk"
    /\ program # <<>>
    /\ IsCallStatement(program[1])
    /\ pc' = "extract"
    /\ current' = CallOf(program[1])
    /\ chain' = <<>>
    /\ UNCHANGED <<written, convertVars>>

Walked(T) ==
    /\ output' = T.output
    /\ tempVarIndex' = T.tempVarIndex
    /\ indentDepth' = T.indentDepth
    /\ pc' = IF T.status = "ok" THEN "walk" ELSE T.status
    /\ program' = Tail(program)
    /\ UNCHANGED <<written, current, chain, i, expr, driverName, ORIGINAL_COMMAND_LIST,
                   fileVars>>

\* The root visitor on any other statement, to its end.
VisitOtherStatement ==
    /\ pc = "walk"
    /\ program # <<>>
    /\ ~IsCallStatement(program[1])
    /\ Walked(visitNode(Now, Visitor(0, driverName), program[1], Env))

\* convertChainToJava: an expect chain goes to the Assertion Translator, and
\* visitNode appends the statement.
ConvertExpect ==
    /\ pc = "extracted"
    /\ program # <<>>
    /\ chain[1].method = "expect"
    /\ output' = output \o getIndent(indentDepth)
                     \o convertExpectChainToJava(chain, indentDepth) \o <<"\n">>
    /\ program' = Tail(program)
    /\ pc' = "walk"
    /\ UNCHANGED <<written, current, chain, i, expr, tempVarIndex, indentDepth,
                   driverName, ORIGINAL_COMMAND_LIST, fileVars>>

\* convertCyChainToJava: the buffer is seeded with the receiver name.
ConvertStart ==
    /\ pc = "extracted"
    /\ program # <<>>
    /\ chain[1].method # "expect"
    /\ pc' = "convert"
    /\ i' = 0
    /\ expr' = << <<driverName>> >>
    /\ UNCHANGED <<written, current, chain, program, output, tempVarIndex,
                   indentDepth, driverName, ORIGINAL_COMMAND_LIST, fileVars>>

AtItem == pc = "convert" /\ i < Len(chain)
Item == chain[i + 1]

\* One iteration of the for loop, with the handler's result T.
Handled(T) ==
    /\ expr' = T.expr
    /\ output' = T.output
    /\ tempVarIndex' = T.tempVarIndex
    /\ indentDepth' = T.indentDepth
    /\ i' = IF T.status = "ok" THEN i + 1 ELSE i
    /\ pc' = IF T.status = "ok" THEN "convert" ELSE T.status
    /\ UNCHANGED <<written, current, chain, program, driverName, ORIGINAL_COMMAND_LIST,
                   fileVars>>

Contains == AtItem /\ Item.method = "contains" /\ Handled(caseContains(Now, Item, i, Len(chain)))
Get == AtItem /\ Item.method \in {"get", "find"} /\ Handled(caseGet(Now, Item))
Eq == AtItem /\ Item.method = "eq" /\ Handled(caseEq(Now, Item))
First == AtItem /\ Item.method = "first" /\ Handled(caseFirst(Now, Item))
Last == AtItem /\ Item.method = "last" /\ Handled(caseLast(Now, Item))
Click == AtItem /\ Item.method = "click" /\ Handled(caseClick(Now, Item))
Type == AtItem /\ Item.method = "type" /\ Handled(caseType(Now, Item))
Should == AtItem /\ Item.method = "should" /\ Handled(caseShould(Now, Item))
Visit == AtItem /\ Item.method = "visit" /\ Handled(caseVisit(Now, Item))
Request == AtItem /\ Item.method = "request" /\ Handled(caseRequest(Now, Item, i))
Then == AtItem /\ Item.method = "then" /\ Handled(caseThen(Now, Item, driverName, Env))
Within == AtItem /\ Item.method = "within" /\ Handled(caseWithin(Now, Item, driverName, Env))
Wait == AtItem /\ Item.method = "wait" /\ Handled(caseWait(Now, Item, driverName))
Default ==
    AtItem /\ Item.method \notin KnownVerbs
        /\ Handled(caseDefault(Now, Item, ORIGINAL_COMMAND_LIST))

\* The loop is over: the fragments are joined, visitNode appends the statement
\* to the output and the walker goes on.
JoinChain ==
    /\ pc = "convert"
    /\ i = Len(chain)
    /\ output' = output \o getIndent(indentDepth)
                     \o JoinStatement(expr, indentDepth) \o <<"\n">>
    /\ expr' = <<>>
    /\ program' = Tail(program)
    /\ pc' = "walk"
    /\ UNCHANGED <<written, current, chain, i, tempVarIndex, indentDepth, driverName,
                   ORIGINAL_COMMAND_LIST, fileVars>>

\* ------------------------------------------------- convertDescribeBlock

PACKAGE_NAME == "test"
ORIGINAL_DRIVER_CLASS_NAME == "OriginalWebDriver"

\* output.value += getIndent() + `<text>\n`
Line(depth, text) == getIndent(depth) \o <<text, "\n">>

\* output.value += getIndent() + '}\n\n'
ClosingLine(depth) == getIndent(depth) \o <<"}", "\n\n">>

\* text.replace(/\s+/g, by): the literal's text is kept as its runs of
\* whitespace and of other characters, and every whitespace run becomes `by`.
IsWhitespace(run) == run \in {" ", "  ", "\t"}

RECURSIVE ReplaceRuns(_, _)
ReplaceRuns(runs, by) ==
    IF runs = <<>> THEN ""
    ELSE (IF IsWhitespace(runs[1].text) THEN by ELSE runs[1].text)
             \o ReplaceRuns(Tail(runs), by)

ReplaceWhitespace(literal, by) ==
    IF literal.kids = <<>> THEN literal.text ELSE ReplaceRuns(literal.kids, by)

BeforeOrAfter ==
    [beforeEach |-> [annotation |-> "@BeforeMethod", method |-> "setup"],
     afterEach |-> [annotation |-> "@AfterMethod", method |-> "end"],
     before |-> [annotation |-> "@BeforeClass", method |-> "setupClass"]]

\* node.expression.getText() of a call: only an identifier callee can spell a
\* hook or test name.
CalleeText(call) == IF Callee(call).kind = "id" THEN Callee(call).text ELSE "."

IsFunctionLike(args, k) == Len(args) >= k /\ args[k].kind = "arrow"
IsStringLiteral(args, k) == Len(args) >= k /\ args[k].kind = "str"

FunctionBody(fn) == fn.kids[1]
Parameters(fn) == Tail(fn.kids)

DescribeCall == file.nodes[1]
Members == FunctionBody(Arguments(DescribeCall)[2]).kids
MemberNode == Members[memberIndex + 1]
IsCallMember(node) == node.kind = "exprstmt" /\ node.kids[1].kind = "call"
MemberFn == IF IsCallMember(MemberNode) THEN CalleeText(MemberNode.kids[1]) ELSE "."
MemberArgs == Arguments(MemberNode.kids[1])

NoMember == [kind |-> "none", name |-> "", signature |-> <<>>]

ClassHeader(className) ==
    <<"package ", PACKAGE_NAME, ";\n\n",
      "import org.junit.*;\n",
      "import org.openqa.selenium.*;\n",
      "import org.openqa.selenium.chrome.ChromeOptions;\n",
      "import org.testng.AssertJUnit;\n",
      "import org.testng.annotations.*;\n",
      "import com.google.gson.JsonObject;\n\n",
      "public class ", className, " {\n">>

ClassName == ReplaceWhitespace(Arguments(DescribeCall)[1], "") \o "Test"

\* convertDescribeBlock up to the walk of the describe body; a describe call
\* that is not (string literal, function) yields null and no file.
BeginDescribe ==
    /\ pc = "main"
    /\ file.mode = "convert"
    /\ IF Arguments(DescribeCall) = <<>>
       THEN pc' = "threw" /\ UNCHANGED <<output, indentDepth>>
       ELSE IF ~(IsStringLiteral(Arguments(DescribeCall), 1)
                   /\ IsFunctionLike(Arguments(DescribeCall), 2))
       THEN pc' = "done" /\ UNCHANGED <<output, indentDepth>>
       ELSE /\ pc' = "describe"
            /\ indentDepth' = indentDepth + 1
            /\ output' = ClassHeader(ClassName)
                             \o Line(indentDepth + 1,
                                     ORIGINAL_DRIVER_CLASS_NAME \o " driver;")
                             \o <<"\n">>
    /\ UNCHANGED <<written, current, chain, program, i, expr, tempVarIndex, driverName,
                   ORIGINAL_COMMAND_LIST, fileVars>>

MethodSignature(name) == "public void " \o name \o "() throws Exception {"

\* visit(): beforeEach / afterEach / before with one argument.
VisitHook ==
    /\ pc = "describe"
    /\ memberIndex < Len(Members)
    /\ MemberFn \in DOMAIN BeforeOrAfter
    /\ Len(MemberArgs) = 1
    /\ IF IsFunctionLike(MemberArgs, 1)
       THEN /\ output' = output \o Line(indentDepth, BeforeOrAfter[MemberFn].annotation)
                             \o Line(indentDepth,
                                     MethodSignature(BeforeOrAfter[MemberFn].method))
            /\ indentDepth' = indentDepth + 1
            /\ program' = FunctionBody(MemberArgs[1]).kids
            /\ member' = [kind |-> "hook", name |-> MemberFn, signature |-> <<>>]
            /\ pc' = "walk"
            /\ UNCHANGED memberIndex
       ELSE /\ memberIndex' = memberIndex + 1
            /\ UNCHANGED <<output, indentDepth, program, member, pc>>
    /\ UNCHANGED <<written, current, chain, i, expr, tempVarIndex, driverName,
                   ORIGINAL_COMMAND_LIST, file, exists, methods, registryFile, outFile>>

\* visit(): it / xit with two arguments.
VisitIt ==
    /\ pc = "describe"
    /\ memberIndex < Len(Members)
    /\ MemberFn \in {"it", "xit"}
    /\ Len(MemberArgs) = 2
    /\ IF IsStringLiteral(MemberArgs, 1) /\ IsFunctionLike(MemberArgs, 2)
       THEN /\ output' = output
                             \o (IF MemberFn = "xit" THEN Line(indentDepth, "@Ignore")
                                 ELSE <<>>)
                             \o Line(indentDepth, "@Test")
                             \o Line(indentDepth,
                                     MethodSignature(ReplaceWhitespace(MemberArgs[1], "_")))
            /\ indentDepth' = indentDepth + 1
            /\ program' = FunctionBody(MemberArgs[2]).kids
            /\ member' = [kind |-> "it", name |-> MemberFn, signature |-> <<>>]
            /\ pc' = "walk"
            /\ UNCHANGED memberIndex
       ELSE /\ memberIndex' = memberIndex + 1
            /\ UNCHANGED <<output, indentDepth, program, member, pc>>
    /\ UNCHANGED <<written, current, chain, i, expr, tempVarIndex, driverName,
                   ORIGINAL_COMMAND_LIST, file, exists, methods, registryFile, outFile>>

\* visit(): anything else at class level goes to baseVisitNode.
VisitMember ==
    /\ pc = "describe"
    /\ memberIndex < Len(Members)
    /\ ~(MemberFn \in DOMAIN BeforeOrAfter /\ Len(MemberArgs) = 1)
    /\ ~(MemberFn \in {"it", "xit"} /\ Len(MemberArgs) = 2)
    /\ program' = <<MemberNode>>
    /\ member' = [kind |-> "class", name |-> "", signature |-> <<>>]
    /\ pc' = "walk"
    /\ UNCHANGED <<written, current, chain, i, expr, output, tempVarIndex, indentDepth,
                   driverName, ORIGINAL_COMMAND_LIST, file, memberIndex, exists,
                   methods, registryFile, outFile>>

\* The walk of a hook or test body is over: the method is closed.
EndMember ==
    /\ pc = "walk"
    /\ program = <<>>
    /\ member.kind \in {"hook", "it", "class"}
    /\ IF member.kind = "class"
       THEN UNCHANGED <<output, indentDepth>>
       ELSE /\ indentDepth' = indentDepth - 1
            /\ output' = output \o ClosingLine(indentDepth - 1)
    /\ exists' = IF member.kind = "hook" THEN [exists EXCEPT ![member.name] = TRUE]
                 ELSE exists
    /\ memberIndex' = memberIndex + 1
    /\ member' = NoMember
    /\ pc' = "describe"
    /\ UNCHANGED <<written, current, chain, program, i, expr, tempVarIndex, driverName,
                   ORIGINAL_COMMAND_LIST, file, methods, registryFile, outFile>>

DefaultSetup(depth) ==
    Line(depth, "@Before")
        \o Line(depth, "public void setup() {")
        \o Line(depth + 1,
                "ChromeOptions options = new ChromeOptions().addArguments(\"--headless\");")
        \o Line(depth + 1, "driver = new " \o ORIGINAL_DRIVER_CLASS_NAME \o "(options);")
        \o ClosingLine(depth)

DefaultTeardown(depth) ==
    Line(depth, "@AfterMethod")
        \o Line(depth, "public void end() {")
        \o Line(depth + 1, "driver.quit();")
        \o ClosingLine(depth)

JavaCodeMutant == output \o <<"}", "\n">>

JavaCode ==
    output \o (IF exists.beforeEach THEN <<>> ELSE DefaultSetup(indentDepth))
           \o (IF exists.afterEach THEN <<>> ELSE DefaultTeardown(indentDepth))
           \o <<"}", "\n">>

\* The describe body is walked: the default hooks, the end of the class, and
\* main writes `<className>.java`.
Finish ==
    /\ pc = "describe"
    /\ memberIndex = Len(Members)
    /\ output' = JavaCode
    /\ indentDepth' = indentDepth - 1
    /\ outFile' = [written |-> TRUE, name |-> ClassName \o ".java", code |-> JavaCode]
    /\ pc' = "done"
    /\ UNCHANGED <<written, current, chain, program, i, expr, tempVarIndex, driverName,
                   ORIGINAL_COMMAND_LIST, file, memberIndex, exists, member, methods,
                   registryFile>>

\* ----------------------------------------- convertCypressCommandsToJava

BeginCollectMutant ==
    /\ pc = "main"
    /\ file.mode = "collect"
    /\ indentDepth' = 1
    /\ methods' = <<>>
    /\ pc' = "collect"
    /\ UNCHANGED <<written, current, chain, program, i, expr, output, tempVarIndex,
                   driverName, ORIGINAL_COMMAND_LIST, file, memberIndex, exists, member,
                   registryFile, outFile>>

\* main, mode 'collect', and the start of convertCypressCommandsToJava.
BeginCollect ==
    /\ pc = "main"
    /\ file.mode = "collect"
    /\ indentDepth' = 1
    /\ methods' = <<>>
    /\ ORIGINAL_COMMAND_LIST' = <<>>
    /\ pc' = "collect"
    /\ UNCHANGED <<written, current, chain, program, i, expr, output, tempVarIndex,
                   driverName, file, memberIndex, exists, member, registryFile, outFile>>

StatementNode == file.nodes[memberIndex + 1]

IsDefinition(node) ==
    /\ IsCallMember(node)
    /\ Callee(node.kids[1]).kind = "prop"
    /\ Callee(node.kids[1]).kids[1]
           = PropertyAccess(Identifier("Cypress"), "Commands")
    /\ Callee(node.kids[1]).text = "add"

DefinitionArgs == Arguments(StatementNode.kids[1])

\* The two checks on a definition: the name is a string literal, the second
\* argument a function expression or an arrow function.
WellFormedMutant(args) == IsFunctionLike(args, 2)

WellFormed(args) == IsStringLiteral(args, 1) /\ IsFunctionLike(args, 2)

RECURSIVE JoinParameters(_)
JoinParameters(params) ==
    IF params = <<>> THEN ""
    ELSE "String " \o params[1].text
             \o (IF Len(params) = 1 THEN "" ELSE ", " \o JoinParameters(Tail(params)))

CommandSignature(depth, name, fn) ==
    getIndent(depth)
        \o <<"public " \o ORIGINAL_DRIVER_CLASS_NAME \o " " \o name \o "("
                 \o JoinParameters(Parameters(fn)) \o ") throws Exception {">>

CommandBody(fn) ==
    IF FunctionBody(fn).kind = "block" THEN FunctionBody(fn).kids
    ELSE <<FunctionBody(fn)>>

\* A `Cypress.Commands.add(name, fn)` statement: the two checks, the registry
\* push, the signature, and the start of the walk of the body.
CollectDefinition ==
    /\ pc = "collect"
    /\ memberIndex < Len(file.nodes)
    /\ IsDefinition(StatementNode)
    /\ IF ~WellFormed(DefinitionArgs)
       THEN /\ pc' = "threw"
            /\ UNCHANGED <<ORIGINAL_COMMAND_LIST, member, output, indentDepth, program>>
       ELSE /\ ORIGINAL_COMMAND_LIST' =
                   Append(ORIGINAL_COMMAND_LIST, DefinitionArgs[1].text)
            /\ member' = [kind |-> "command", name |-> DefinitionArgs[1].text,
                          signature |-> CommandSignature(indentDepth,
                                            DefinitionArgs[1].text, DefinitionArgs[2])]
            /\ output' = <<>>
            /\ indentDepth' = indentDepth + 1
            /\ program' = CommandBody(DefinitionArgs[2])
            /\ pc' = "walk"
    /\ UNCHANGED <<written, current, chain, i, expr, tempVarIndex, driverName, file,
                   memberIndex, exists, methods, registryFile, outFile>>

\* Any other top-level statement of the commands file is passed over.
SkipStatement ==
    /\ pc = "collect"
    /\ memberIndex < Len(file.nodes)
    /\ ~IsDefinition(StatementNode)
    /\ memberIndex' = memberIndex + 1
    /\ UNCHANGED <<pc, written, current, chain, program, i, expr, output, tempVarIndex,
                   indentDepth, driverName, ORIGINAL_COMMAND_LIST, file, exists, member,
                   methods, registryFile, outFile>>

MethodMutant(signature, javaBody, depth) ==
    signature \o <<"\n">> \o javaBody \o <<"\n">>
        \o getIndent(depth - 1) \o <<"}", "\n">>

Method(signature, javaBody, depth) ==
    signature \o <<"\n">> \o javaBody \o <<"\n">>
        \o getIndent(depth) \o <<"return this;", "\n">>
        \o getIndent(depth - 1) \o <<"}", "\n">>

\* The body of a command is walked: the method is assembled and pushed.
EndCommand ==
    /\ pc = "walk"
    /\ program = <<>>
    /\ member.kind = "command"
    /\ methods' = Append(methods, Method(member.signature, output, indentDepth))
    /\ indentDepth' = indentDepth - 1
    /\ memberIndex' = memberIndex + 1
    /\ member' = NoMember
    /\ pc' = "collect"
    /\ UNCHANGED <<written, current, chain, program, i, expr, output, tempVarIndex,
                   driverName, ORIGINAL_COMMAND_LIST, file, exists, registryFile, outFile>>

RECURSIVE JoinWith(_, _)
JoinWith(parts, separator) ==
    IF parts = <<>> THEN <<>>
    ELSE IF Len(parts) = 1 THEN parts[1]
    ELSE parts[1] \o separator \o JoinWith(Tail(parts), separator)

JavaClass(generated) ==
    <<"package ", PACKAGE_NAME, ";\n\n",
      "import org.testng.AssertJUnit;\n",
      "import org.openqa.selenium.*;\n",
      "import org.openqa.selenium.chrome.ChromeDriver;\n",
      "import org.openqa.selenium.chrome.ChromeOptions;\n",
      "import com.google.gson.JsonObject;\n",
      "import java.net.*;\n",
      "import java.io.*;\n\n",
      "public class ", ORIGINAL_DRIVER_CLASS_NAME, " extends ChromeDriver {\n",
      "    public ", ORIGINAL_DRIVER_CLASS_NAME, "(ChromeOptions options) {\n",
      "        super(options);\n",
      "    }\n\n">>
        \o JoinWith(generated, <<"\n\n">>) \o <<"\n", "}", "\n">>

\* convertCypressCommandsToJava returned: main writes the driver subclass and
\* then the registry, one name per line.
WriteCollected ==
    /\ pc = "collect"
    /\ memberIndex = Len(file.nodes)
    /\ outFile' = [written |-> TRUE, name |-> ORIGINAL_DRIVER_CLASS_NAME \o ".java",
                   code |-> JavaClass(methods)]
    /\ registryFile' = ORIGINAL_COMMAND_LIST
    /\ pc' = "done"
    /\ UNCHANGED <<written, current, chain, program, i, expr, output, tempVarIndex,
                   indentDepth, driverName, ORIGINAL_COMMAND_LIST, file, memberIndex,
                   exists, member, methods>>


\* ------------------------------------------------------------- the inputs

MaxChainLen == 3
MaxStatements == 2
MaxExpectLen == 3

ExpressionStatement(e) == Node("exprstmt", "", <<e>>)
Block(stmts) == Node("block", "", stmts)
IfStatement(cond, thenStmt) == Node("if", cond, <<thenStmt>>)
ArrowFunction(body) == Node("arrow", "", <<body>>)
ObjectLiteral(props) == Node("obj", "", props)
PropertyAssignment(name, init) == Node("propassign", name, <<init>>)

\* `<receiver>.verb(args).verb(args)...` as the parser nests it.
RECURSIVE VerbSuffixes(_)
VerbSuffixes(items) ==
    IF items = <<>> THEN <<>>
    ELSE <<DotSuffix(items[1].method), CallSuffix(items[1].args)>>
             \o VerbSuffixes(Tail(items))

ChainExpression(items) == ParsePostfix(Identifier("cy"), VerbSuffixes(items))
ChainStatement(items) == ExpressionStatement(ChainExpression(items))

Verb(method) == ChainItem(method, <<>>)
Verb1(method, arg) == ChainItem(method, <<arg>>)

GetA == Verb1("get", StringLiteral("#a"))
GetB == Verb1("get", StringLiteral("#b"))

\* Callback bodies: a block of chain statements, a block with a nested
\* within, a block with an if statement, a concise arrow body, and a concise
\* body whose call takes a chain as its argument.
BlockCallback ==
    ArrowFunction(Block(<<ChainStatement(<<GetB, Verb("click")>>),
                          ChainStatement(<<GetB, Verb("last")>>)>>))
NestedCallback ==
    ArrowFunction(Block(<<ChainStatement(
        <<GetB, Verb1("within", ArrowFunction(Block(
              <<ChainStatement(<<Verb1("find", StringLiteral("li")),
                                 Verb1("should", StringLiteral("be.visible"))>>)>>)))>>)>>))
IfCallback ==
    ArrowFunction(Block(<<IfStatement("ok",
        Block(<<ChainStatement(<<GetB, Verb("click")>>)>>))>>))
ConciseCallback == ArrowFunction(ChainExpression(<<GetB, Verb("click")>>))
ArgumentCallback ==
    ArrowFunction(CallExpression(Identifier("wrap"), <<ChainExpression(<<GetB>>)>>))
EmptyCallback == ArrowFunction(Block(<<>>))

Callbacks ==
    {BlockCallback, NestedCallback, IfCallback, ConciseCallback, ArgumentCallback,
     EmptyCallback}

RequestBody ==
    ObjectLiteral(<<PropertyAssignment("a", NumericLiteral("1")),
                    PropertyAssignment("b", ObjectLiteral(
                        <<PropertyAssignment("c", StringLiteral("x")),
                          PropertyAssignment("d", ObjectLiteral(<<>>))>>))>>)
RequestOptionsLiteral ==
    ObjectLiteral(<<PropertyAssignment("url", StringLiteral("/api")),
                    PropertyAssignment("method", StringLiteral("post")),
                    PropertyAssignment("body", RequestBody)>>)

\* The options of the fourth end-to-end scenario:
\* { url: <url>, method: 'post', body: { a: 1 } }.
PostBody == ObjectLiteral(<<PropertyAssignment("a", NumericLiteral("1"))>>)
PostOptions(url) ==
    ObjectLiteral(<<PropertyAssignment("url", StringLiteral(url)),
                    PropertyAssignment("method", StringLiteral("post")),
                    PropertyAssignment("body", PostBody)>>)

\* A body three objects deep: { a: { b: { c: 1 }, e: 'x' }, d: 2, f: {} }.
DeepBody ==
    ObjectLiteral(
        <<PropertyAssignment("a", ObjectLiteral(
              <<PropertyAssignment("b", ObjectLiteral(
                    <<PropertyAssignment("c", NumericLiteral("1"))>>)),
                PropertyAssignment("e", StringLiteral("x"))>>)),
          PropertyAssignment("d", NumericLiteral("2")),
          PropertyAssignment("f", ObjectLiteral(<<>>))>>)

\* The steps every chain may repeat.
CoreItems == {GetA, Verb("click")}

OtherItems ==
    {Verb("get"), Verb1("get", StringLiteral("[name=\"q\"]")),
     Verb1("get", StringLiteral("#findElement")),
     Verb1("find", StringLiteral(".b")),
     Verb1("contains", StringLiteral("hi")), Verb("contains"),
     Verb1("eq", NumericLiteral("0")), Verb1("eq", NumericLiteral("2")),
     Verb1("eq", Identifier("n")), Verb("eq"),
     Verb("first"), Verb("last"),
     Verb1("type", StringLiteral("bob{enter}")), Verb("type"),
     Verb1("should", StringLiteral("be.visible")),
     Verb1("should", StringLiteral("not.be.visible")),
     Verb1("should", StringLiteral("not.exist")),
     Verb1("should", StringLiteral("have.text")), Verb("should"),
     Verb1("should", Identifier("n")),
     Verb1("visit", StringLiteral("/login")), Verb("visit"),
     Verb1("request", StringLiteral("/api")), Verb1("request", RequestOptionsLiteral),
     Verb1("request", Identifier("opts")), Verb("request"),
     Verb1("request", PostOptions("/api")),
     Verb1("request", ObjectLiteral(
         <<PropertyAssignment("url", StringLiteral("/api")),
           PropertyAssignment("body", DeepBody)>>)),
     Verb1("request", ObjectLiteral(
         <<PropertyAssignment("body", PostBody),
           PropertyAssignment("method", StringLiteral("post")),
           PropertyAssignment("url", StringLiteral("https://example.com"))>>)),
     Verb1("then", StringLiteral("x")), Verb("then"),
     Verb1("within", StringLiteral("x")), Verb("within"),
     Verb1("wait", NumericLiteral("500")), Verb("wait"),
     Verb("bogus"), Verb1("login", StringLiteral("bob"))}
        \cup {Verb1("then", cb) : cb \in Callbacks}
        \cup {Verb1("within", cb) : cb \in Callbacks}

\* Chains of up to MaxChainLen steps with at most one step outside the core.
Chains ==
    UNION {{c \in [1..n -> CoreItems \cup OtherItems] :
                Cardinality({j \in 1..n : c[j] \notin CoreItems}) <= 1} :
           n \in 1..MaxChainLen}

\* Statements that allocate temp variables, for bodies of several statements.
AllocatingStatements ==
    {ChainStatement(<<GetA, Verb("last")>>),
     ChainStatement(<<GetA, Verb1("should", StringLiteral("be.visible")), Verb("click")>>),
     ChainStatement(<<GetA, Verb1("contains", StringLiteral("hi"))>>),
     ChainStatement(<<GetA, Verb1("within", BlockCallback), Verb("last")>>),
     ChainStatement(<<GetA, Verb1("then", NestedCallback)>>),
     ChainStatement(<<Verb1("request", RequestOptionsLiteral)>>)}

\* Statements of other shapes: the first and the last element of a lookup
\* whose selector holds the text "findElement", an if statement, an assertion chain, a call on
\* a bare identifier, bare property verbs, an indexed receiver, and calls whose
\* callee is an element access or another call.
OtherStatements ==
    {ChainStatement(<<Verb1("get", StringLiteral("#findElement")), Verb("first")>>),
     ChainStatement(<<Verb1("get", StringLiteral("#findElement")), Verb("last")>>),
     ChainStatement(<<GetA, Verb("first"), Verb("first")>>),
     IfStatement("ok", Block(<<ChainStatement(<<GetA, Verb("click")>>)>>)),
     Node("while", "ok",
          <<Block(<<Node("for", "; ok; ",
                         <<Block(<<ChainStatement(<<GetA, Verb("click")>>)>>)>>)>>)>>),
     Node("if", "ok", <<Block(<<ChainStatement(<<GetA, Verb("last")>>)>>),
                        Block(<<ChainStatement(<<GetB, Verb("click")>>)>>)>>),
     ExpressionStatement(ParsePostfix(Identifier("expect"),
         <<CallSuffix(<<Identifier("x")>>), DotSuffix("to"), DotSuffix("equal"),
           CallSuffix(<<NumericLiteral("1")>>)>>)),
     ExpressionStatement(ParsePostfix(Identifier("helper"),
         <<CallSuffix(<<StringLiteral("#a")>>), DotSuffix("click"), CallSuffix(<<>>)>>)),
     ExpressionStatement(ParsePostfix(Identifier("cy"),
         <<DotSuffix("get"), CallSuffix(<<StringLiteral("#a")>>), DotSuffix("first"),
           DotSuffix("click"), CallSuffix(<<>>)>>)),
     ExpressionStatement(ParsePostfix(Identifier("cy"),
         <<DotSuffix("get"), CallSuffix(<<StringLiteral("#a")>>), IndexSuffix,
           DotSuffix("click"), CallSuffix(<<>>)>>)),
     ExpressionStatement(ParsePostfix(Identifier("fns"),
         <<IndexSuffix, CallSuffix(<<StringLiteral("#a")>>)>>))}

\* Assertion chains: `expect(x)` followed by up to MaxExpectLen words, each a
\* bare property (`.to`) or a call (`.equal(1)`).
Word(method) == [method |-> method, args |-> <<>>, call |-> FALSE]
Call(method, args) == [method |-> method, args |-> args, call |-> TRUE]

RECURSIVE WordSuffixes(_)
WordSuffixes(words) ==
    IF words = <<>> THEN <<>>
    ELSE <<DotSuffix(words[1].method)>>
             \o (IF words[1].call THEN <<CallSuffix(words[1].args)>> ELSE <<>>)
             \o WordSuffixes(Tail(words))

ExpectStatement(head, words) ==
    ExpressionStatement(ParsePostfix(Identifier("expect"),
        <<CallSuffix(head)>> \o WordSuffixes(words)))

ExpectWords ==
    {Word("to"), Word("be"), Word("and"), Word("have"), Word("that"), Word("with"),
     Word("deep"), Word("true"), Word("false"), Word("null"), Word("undefined"),
     Word("bogus"), Call("greaterThan", <<Identifier("n")>>),
     Call("equal", <<NumericLiteral("1")>>), Call("equal", <<>>),
     Call("eq", <<StringLiteral("a")>>), Call("lessThan", <<NumericLiteral("1")>>)}

Targets == {Identifier("x"), StringLiteral("hi"), NumericLiteral("2")}
Expecteds == {<<NumericLiteral("1")>>, <<StringLiteral("a")>>, <<Identifier("n")>>, <<>>}

\* The words every assertion chain may repeat.
CoreWords == {Word("to"), Word("deep"), Call("equal", <<NumericLiteral("1")>>)}

\* Word sequences of up to MaxExpectLen words with at most one outside the core.
WordSeqs ==
    UNION {{w \in [1..n -> ExpectWords] :
                Cardinality({j \in 1..n : w[j] \notin CoreWords}) <= 1} :
           n \in 0..MaxExpectLen}

ExpectStatements ==
    {ExpectStatement(<<Identifier("x")>>, w) : w \in WordSeqs}
        \cup {ExpectStatement(<<x>>, <<Word("to")>> \o d \o <<Call(e, y)>>) :
                 x \in Targets, y \in Expecteds, d \in {<<>>, <<Word("deep")>>},
                 e \in {"equal", "eq"}}
        \cup {ExpectStatement(<<>>, <<Word("to"), Call("equal", <<NumericLiteral("1")>>)>>)}

\* Bodies without assertion chains, for tests and for custom commands.
CommandPrograms ==
    {<<ChainStatement(c)>> : c \in Chains}
        \cup {<<st>> : st \in OtherStatements}
        \cup UNION {[1..n -> AllocatingStatements] : n \in 1..MaxStatements}

Programs == CommandPrograms \cup {<<st>> : st \in ExpectStatements}

\* Function arguments with parameters: the parameters follow the body.
ArrowFunctionOf(params, body) == Node("arrow", "", <<body>> \o params)

RECURSIVE Concat(_)
Concat(runs) == IF runs = <<>> THEN "" ELSE runs[1] \o Concat(Tail(runs))

\* A string literal whose text has whitespace, with its runs.
TitleLiteral(runs) ==
    Node("str", Concat(runs), [k \in 1..Len(runs) |-> Node("run", runs[k], <<>>)])

It(fn, title, stmts) ==
    ExpressionStatement(CallExpression(Identifier(fn),
                                       <<title, ArrowFunction(Block(stmts))>>))
Hook(fn, stmts) ==
    ExpressionStatement(CallExpression(Identifier(fn), <<ArrowFunction(Block(stmts))>>))
Describe(title, members) ==
    CallExpression(Identifier("describe"), <<title, ArrowFunction(Block(members))>>)
Suite(members) ==
    [mode |-> "convert",
     nodes |-> <<Describe(TitleLiteral(<<"Login", " ", "page">>), members)>>]

LogsIn == TitleLiteral(<<"logs", " ", "in">>)

\* The first end-to-end scenario: visit, get + type, get + click.
Scenario(url, a, t, b) ==
    <<ChainStatement(<<Verb1("visit", StringLiteral(url))>>),
      ChainStatement(<<Verb1("get", StringLiteral(a)), Verb1("type", StringLiteral(t))>>),
      ChainStatement(<<Verb1("get", StringLiteral(b)), Verb("click")>>)>>

ScenarioUrls == {"/login", "https://example.com"}
ScenarioSelectors == {"#u", "#btn", "#findElement"}
ScenarioTexts == {"bob", "bob{enter}"}

ScenarioBodies ==
    {Scenario(url, a, t, b) :
        url \in ScenarioUrls, a \in ScenarioSelectors, t \in ScenarioTexts,
        b \in ScenarioSelectors}

OneStatement == <<ChainStatement(<<GetA, Verb("click")>>)>>

\* Suites of other shapes: explicit hooks, a skipped test, two tests, a test
\* with a concise body, members that are not (string, function), a statement
\* at class level, and describe calls that yield no class.
OtherSuites ==
    {Suite(<<Hook("beforeEach", <<ChainStatement(<<Verb1("visit", StringLiteral("/"))>>)>>),
             It("it", LogsIn, OneStatement)>>),
     Suite(<<It("it", LogsIn, OneStatement), Hook("afterEach", <<>>)>>),
     Suite(<<Hook("before", OneStatement), Hook("beforeEach", <<>>),
             Hook("afterEach", OneStatement), It("it", LogsIn, OneStatement)>>),
     Suite(<<It("xit", LogsIn, OneStatement)>>),
     Suite(<<It("it", LogsIn, OneStatement),
             It("it", TitleLiteral(<<"logs", "  ", "out", "\t", "again">>),
                <<ChainStatement(<<GetA, Verb("last")>>)>>)>>),
     Suite(<<ExpressionStatement(CallExpression(Identifier("it"),
                 <<LogsIn, ArrowFunction(ChainExpression(<<GetA, Verb("click")>>))>>))>>),
     Suite(<<It("it", Identifier("title"), OneStatement)>>),
     Suite(<<ExpressionStatement(CallExpression(Identifier("it"), <<LogsIn>>))>>),
     Suite(<<ExpressionStatement(CallExpression(Identifier("beforeEach"),
                                                <<Identifier("prepare")>>)),
             It("it", LogsIn, OneStatement)>>),
     Suite(<<ChainStatement(<<Verb1("visit", StringLiteral("/"))>>),
             It("it", StringLiteral("works"), OneStatement)>>),
     Suite(<<>>),
     [mode |-> "convert",
      nodes |-> <<CallExpression(Identifier("describe"), <<LogsIn>>)>>],
     [mode |-> "convert",
      nodes |-> <<CallExpression(Identifier("describe"),
                                 <<Identifier("title"), ArrowFunction(Block(<<>>))>>)>>],
     [mode |-> "convert", nodes |-> <<CallExpression(Identifier("describe"), <<>>)>>]}

Suites ==
    {Suite(<<It("it", LogsIn, body)>>) : body \in Programs \cup ScenarioBodies}
        \cup OtherSuites

\* `Cypress.Commands.add(name, fn)` as a top-level statement.
Definition(args) ==
    ExpressionStatement(CallExpression(
        PropertyAccess(PropertyAccess(Identifier("Cypress"), "Commands"), "add"), args))
Command(name, params, stmts) ==
    Definition(<<StringLiteral(name), ArrowFunctionOf(params, Block(stmts))>>)
CommandFile(stmts) == [mode |-> "collect", nodes |-> stmts]

\* Commands files of other shapes: several definitions with parameters, a
\* concise body, a statement that is no definition, and definitions whose
\* name is no string literal or whose second argument is no function, first
\* in the file or after a well-formed definition.
OtherCommandFiles ==
    {CommandFile(<<Command("logout", <<>>, OneStatement),
                   Command("login", <<Identifier("user"), Identifier("pw")>>,
                           <<ChainStatement(<<GetA, Verb("last")>>),
                             ChainStatement(<<Verb("logout")>>)>>)>>),
     CommandFile(<<Command("open", <<Identifier("url")>>,
                           <<ChainStatement(<<Verb1("visit", Identifier("url"))>>)>>),
                   ChainStatement(<<Verb1("visit", StringLiteral("/"))>>),
                   Command("open", <<>>, <<>>),
                   Command("close", <<>>, OneStatement)>>),
     CommandFile(<<Definition(<<StringLiteral("press"),
                                ArrowFunction(ChainExpression(<<GetA, Verb("click")>>))>>)>>),
     CommandFile(<<Command("retry", <<>>,
                           <<ChainStatement(<<Verb("retry")>>),
                             ChainStatement(<<GetA, Verb("first")>>)>>),
                   Command("first", <<>>, <<ChainStatement(<<Verb("close")>>)>>),
                   Command("close", <<>>,
                           <<ChainStatement(<<GetA, Verb("first")>>),
                             ChainStatement(<<Verb("retry")>>)>>)>>),
     CommandFile(<<>>),
     CommandFile(<<Definition(<<Identifier("name"), ArrowFunction(Block(OneStatement))>>)>>),
     CommandFile(<<Definition(<<StringLiteral("press"), Identifier("handler")>>)>>),
     CommandFile(<<Definition(<<StringLiteral("press")>>)>>),
     CommandFile(<<Definition(<<>>)>>),
     CommandFile(<<Command("logout", <<>>, OneStatement),
                   Definition(<<Identifier("name"), ArrowFunction(Block(OneStatement))>>),
                   Command("close", <<>>, OneStatement)>>),
     CommandFile(<<Command("logout", <<>>, OneStatement),
                   Definition(<<StringLiteral("press"), StringLiteral("handler")>>)>>)}

CommandFiles ==
    {CommandFile(<<Command("submit", <<>>, body)>>) : body \in CommandPrograms}
        \cup OtherCommandFiles

\* ------------------------------------------------------ the specification

\* The state after the module is loaded: the registry is read from its file,
\* and main has read the input.
Init ==
    /\ pc = "main"
    /\ written = <<>>
    /\ current = Identifier("cy")
    /\ chain = <<>>
    /\ file \in Suites \cup CommandFiles
    /\ program = <<>>
    /\ i = 0
    /\ expr = <<>>
    /\ output = <<>>
    /\ tempVarIndex = 0
    /\ indentDepth = 0
    /\ driverName = IF file.mode = "convert" THEN "driver" ELSE "this"
    /\ registryFile = <<"login">>
    /\ ORIGINAL_COMMAND_LIST = registryFile
    /\ memberIndex = 0
    /\ exists = [beforeEach |-> FALSE, afterEach |-> FALSE, before |-> FALSE]
    /\ member = NoMember
    /\ methods = <<>>
    /\ outFile = [written |-> FALSE, name |-> "", code |-> <<>>]

Next ==
    \/ VisitCallStatement
    \/ VisitOtherStatement
    \/ ExtractStepCall
    \/ ExtractStepCallOther
    \/ ExtractStepProperty
    \/ ExtractReturn
    \/ ConvertExpect
    \/ ConvertStart
    \/ Contains
    \/ Get
    \/ Eq
    \/ First
    \/ Last
    \/ Click
    \/ Type
    \/ Should
    \/ Visit
    \/ Request
    \/ Then
    \/ Within
    \/ Wait
    \/ Default
    \/ JoinChain
    \/ BeginDescribe
    \/ VisitHook
    \/ VisitIt
    \/ VisitMember
    \/ EndMember
    \/ Finish
    \/ BeginCollect
    \/ CollectDefinition
    \/ SkipStatement
    \/ EndCommand
    \/ WriteCollected

Spec == Init /\ [][Next]_vars

\* ------------------------------- src/index.js: convertCyChainToJava

\* escapeJavaString(raw) of src/index.js on args[0].getText(): the single
\* quotes around the text go, a double quote gets a backslash.
indexEscapeJavaString(node) ==
    IF node.kind = "str" THEN EscapeText(node.text) ELSE GetText(node)

indexGet(T, item) ==
    IF ~HasArg(item) THEN Throw(T)
    ELSE LET argText == indexEscapeJavaString(item.args[1])
             selectorExpr ==
                 IF item.method = "contains"
                 THEN <<"By.xpath(\"//*[contains(text(), '", argText, "')]\")">>
                 ELSE <<"By.cssSelector(", "\"" \o argText \o "\"", ")">>
         IN  [T EXCEPT !.expr =
                  AppendLast(T.expr, <<FindToken(0), "(">> \o selectorExpr \o <<")">>)]

indexContains(T, item, idx, n) ==
    IF idx # 0 /\ idx = n - 1
    THEN IF ~HasArg(item) THEN Throw(T)
         ELSE LET v == ElementVar(T.tempVarIndex)
              IN  [T EXCEPT
                      !.expr = Append(
                          SetLast(T.expr, <<"WebElement ", v, " = ">> \o LastFragment(T.expr)),
                          <<"AssertJUnit.assertTrue(", v, ".getText().contains(",
                            "\"" \o indexEscapeJavaString(item.args[1]) \o "\"", "))">>),
                      !.tempVarIndex = @ + 1]
    ELSE indexGet(T, item)

indexEq(T, item) ==
    IF ~HasArg(item) \/ item.args[1].kind # "num"
    THEN [T EXCEPT !.expr = AppendLast(T.expr, <<"/* unsupported eq syntax */">>)]
    ELSE [T EXCEPT !.expr =
              AppendLast(SetLast(T.expr, ReplaceFindElement(LastFragment(T.expr))),
                         <<".get(" \o item.args[1].text \o ")">>)]

indexType(T, item) ==
    IF ~HasArg(item) THEN Throw(T)
    ELSE [T EXCEPT !.expr = AppendLast(T.expr,
              <<".sendKeys(", escapeJavaString(item.args[1]), ")">>)]

indexShould(T, item) ==
    IF ~HasArg(item) \/ item.args[1].kind # "str"
    THEN [T EXCEPT !.expr = AppendLast(T.expr, <<"/* unsupported should syntax */">>)]
    ELSE CASE item.args[1].text = "be.visible" -> shouldAssert(T, "assertTrue")
           [] item.args[1].text = "not.be.visible" -> shouldAssert(T, "assertFalse")
           [] item.args[1].text = "not.exist" -> shouldNotExist(T)
           [] OTHER -> [T EXCEPT !.expr = AppendLast(T.expr,
                           <<"/* unsupported should condition: ", item.args[1].text,
                             " */">>)]

\* options.properties.forEach(...), on R = [url, method, bodyJson].
RECURSIVE indexRequestOptions(_, _)
indexRequestOptions(R, props) ==
    IF props = <<>> THEN R
    ELSE LET p == props[1]
             val == GetText(p.kids[1])
             R1 == IF p.kind # "propassign" THEN R
                   ELSE IF p.text = "url" THEN [R EXCEPT !.url = val]
                   ELSE IF p.text = "method"
                   THEN [R EXCEPT !.method = StripAllQuotes(p.kids[1])]
                   ELSE IF p.text = "body" THEN [R EXCEPT !.bodyJson = val]
                   ELSE R
         IN  indexRequestOptions(R1, Tail(props))

indexRequestBlock(R) ==
    << <<"HttpURLConnection ", "conn", " = ", "(HttpURLConnection) new URL(", R.url,
         ").openConnection()">>,
       <<"conn.setRequestMethod(\"" \o ToUpperCase(R.method) \o "\")">> >>
        \o (IF R.bodyJson # ""
            THEN << <<"conn.setDoOutput(true)">>,
                    <<"String ", "jsonInputString", " = ", "new JSONObject(", R.bodyJson,
                      ").toString()">>,
                    <<"try(OutputStream os = conn.getOutputStream()) {">>,
                    <<Repeat(" ", TAB_SIZE), "byte[] ", "input", " = ",
                      "jsonInputString.getBytes(\"utf-8\")">>,
                    <<Repeat(" ", TAB_SIZE), "os.write(input, 0, input.length)">>,
                    <<"}">> >>
            ELSE <<>>)

\* case 'request' of src/index.js: the buffer is emptied for a first step and
\* gets an empty fragment otherwise; a string literal is added to the last
\* fragment, which an empty buffer does not have.
indexRequest(T, item, idx) ==
    LET T0 == [T EXCEPT !.expr = IF idx = 0 THEN <<>> ELSE Append(@, <<>>)]
    IN  IF ~HasArg(item) THEN Throw(T0)
        ELSE LET options == item.args[1]
             IN  IF options.kind = "str"
                 THEN [T0 EXCEPT !.expr =
                          Append(AppendLast(T0.expr,
                                     <<"HttpURLConnection ", "conn", " = ",
                                       "(HttpURLConnection) new URL(", GetText(options),
                                       ").openConnection()">>),
                                 <<"conn.setRequestMethod(\"GET\")">>)]
                 ELSE IF options.kind = "obj"
                 THEN [T0 EXCEPT !.expr = @ \o indexRequestBlock(indexRequestOptions(
                          [url |-> "\"http://localhost\"", method |-> "GET", bodyJson |-> ""],
                          options.kids))]
                 ELSE [T0 EXCEPT !.expr = Append(@, <<"/* unsupported request syntax */">>)]

\* innerStatements.value: the callbacks of IndexChains have an empty body, so
\* body.forEachChild(innerVisitNode) visits nothing.
indexInnerStatements(cb) == <<>>

indexThen(T, item) ==
    IF FunctionLike(item)
    THEN [T EXCEPT !.expr = Append(@, indexInnerStatements(item.args[1]))]
    ELSE [T EXCEPT !.expr = Append(@, <<"/* unsupported then syntax */">>)]

indexWithin(T, item) ==
    LET parentSelector == LastFragment(T.expr)
        tempVar == ScopeVar(T.tempVarIndex)
    IN  IF FunctionLike(item)
        THEN [T EXCEPT
                 !.expr = SetLast(T.expr, <<"WebElement ", tempVar, " = ">> \o parentSelector)
                              \o <<indexInnerStatements(item.args[1]), <<tempVar>> >>,
                 !.tempVarIndex = @ + 1]
        ELSE [T EXCEPT !.tempVarIndex = @ + 1]

indexWait(T, item) ==
    IF ~HasArg(item)
    THEN [T EXCEPT !.expr = AppendLast(T.expr, <<"/* unsupported wait syntax */">>)]
    ELSE [T EXCEPT !.expr = AppendLast(T.expr, <<".wait(", GetText(item.args[1]), ")">>)]

indexDefault(T, item, commands) ==
    IF InList(commands, item.method)
    THEN [T EXCEPT !.expr = AppendLast(T.expr,
              <<"." \o item.method \o "(" \o JoinTexts(item.args) \o ")">>)]
    ELSE [T EXCEPT !.expr = AppendLast(T.expr,
              <<"/* unsupported method: ", item.method, " */">>)]

\* The switch of convertCyChainToJava of src/index.js on chain[idx].
indexHandleItem(T, item, idx, n, commands) ==
    CASE item.method = "contains" -> indexContains(T, item, idx, n)
      [] item.method \in {"get", "find"} -> indexGet(T, item)
      [] item.method = "eq" -> indexEq(T, item)
      [] item.method = "first" -> caseFirst(T, item)
      [] item.method = "last" -> caseLast(T, item)
      [] item.method = "click" -> caseClick(T, item)
      [] item.method = "type" -> indexType(T, item)
      [] item.method = "should" -> indexShould(T, item)
      [] item.method = "visit" -> caseVisit(T, item)
      [] item.method = "request" -> indexRequest(T, item, idx)
      [] item.method = "then" -> indexThen(T, item)
      [] item.method = "within" -> indexWithin(T, item)
      [] item.method = "wait" -> indexWait(T, item)
      [] OTHER -> indexDefault(T, item, commands)

\* const expr = [`${driverName}`]
IndexStart ==
    /\ pc = "index"
    /\ pc' = "convert"
    /\ i' = 0
    /\ expr' = << <<driverName>> >>
    /\ UNCHANGED <<written, current, chain, program, output, tempVarIndex,
                   indentDepth, driverName, ORIGINAL_COMMAND_LIST, fileVars>>

\* One iteration of the for loop.
IndexStep ==
    /\ AtItem
    /\ Handled(indexHandleItem(Now, Item, i, Len(chain), ORIGINAL_COMMAND_LIST))

\* return expr.join(';\n' + getIndent()) + ';'
IndexReturn ==
    /\ pc = "convert"
    /\ i = Len(chain)
    /\ output' = JoinStatement(expr, indentDepth)
    /\ pc' = "done"
    /\ UNCHANGED <<written, current, chain, program, i, expr, tempVarIndex, indentDepth,
                   driverName, ORIGINAL_COMMAND_LIST, fileVars>>

\* The steps of the chains of the src/index.js runs: the callbacks have an
\* empty body.
IndexCoreItems == {GetA, Verb("click"), Verb1("request", StringLiteral("/api"))}

IndexOtherItems ==
    {it \in OtherItems : it.method \notin {"then", "within"}}
        \cup {Verb1("then", EmptyCallback), Verb1("within", EmptyCallback),
              Verb1("then", StringLiteral("x")), Verb("then"),
              Verb1("within", StringLiteral("x")), Verb("within")}

IndexChains ==
    UNION {{c \in [1..n -> IndexCoreItems \cup IndexOtherItems] :
                Cardinality({j \in 1..n : c[j] \notin IndexCoreItems}) <= 1} :
           n \in 1..MaxChainLen}

InitIndex ==
    /\ pc = "index"
    /\ written = <<>>
    /\ current = Identifier("cy")
    /\ chain \in IndexChains
    /\ program = <<>>
    /\ i = 0
    /\ expr = <<>>
    /\ output = <<>>
    /\ tempVarIndex = 0
    /\ indentDepth \in {0, 2}
    /\ driverName = "driver"
    /\ ORIGINAL_COMMAND_LIST = <<"login">>
    /\ file = <<>>
    /\ memberIndex = 0
    /\ exists = [beforeEach |-> FALSE, afterEach |-> FALSE, before |-> FALSE]
    /\ member = [kind |-> "none", name |-> "", signature |-> <<>>]
    /\ methods = <<>>
    /\ registryFile = <<"login">>
    /\ outFile = [written |-> FALSE, name |-> "", code |-> <<>>]

NextIndex ==
    \/ IndexStart
    \/ IndexStep
    \/ IndexReturn

SpecIndex == InitIndex /\ [][NextIndex]_vars

\* ------------------------------------------------ the translator: claims

RECURSIVE Flatten(_)
Flatten(buf) == IF buf = <<>> THEN <<>> ELSE buf[1] \o Flatten(Tail(buf))

\* All the text emitted so far: the output and the statement being built.
Emitted == output \o Flatten(expr)

DiagnosticCount(toks) ==
    Cardinality({k \in 1..Len(toks) : toks[k] = "/* unsupported "})

\* The callback has a block body with a chain statement in it.
HasChainStatement(cb) ==
    /\ cb.kids[1].kind = "block"
    /\ \E k \in 1..Len(cb.kids[1].kids) :
           /\ cb.kids[1].kids[k].kind = "exprstmt"
           /\ cb.kids[1].kids[k].kids[1].kind = "call"

WithinCallbackStep == AtItem /\ Item.method = "within" /\ FunctionLike(Item)
ThenCallbackStep == AtItem /\ Item.method = "then" /\ FunctionLike(Item)

\* C1: the chain statements in the body of a within callback are translated
\* with the scope variable as receiver, and the nested translation sits in the
\* enclosing chain's statement block, between the declaration of the scope
\* variable and the fragment that re-exposes it: the step writes nothing to
\* the output outside the block, and the fragment between the two names the
\* scope variable.
C1_WithinNestedUsesScope ==
    [][(WithinCallbackStep /\ HasChainStatement(Item.args[1]))
          => /\ output' = output
             /\ Len(expr') = Len(expr) + 2
             /\ InList(expr'[Len(expr') - 1], ScopeVar(tempVarIndex))]_vars

IsScopeDeclaration(f, n) ==
    Len(f) >= 3 /\ f[1] = "WebElement " /\ \E m \in 0..n : f[2] = ScopeVar(m)

ScopeDeclarations(buf, n) == {k \in 1..Len(buf) : IsScopeDeclaration(buf[k], n)}

\* C2: a within step with a function argument declares exactly one scope
\* variable: the last fragment before the step becomes
\* `WebElement scopeElementN = <that fragment>`, the fragments before it are
\* kept, and the last fragment after the step is exactly `scopeElementN`.
C2_WithinDeclaresScope ==
    [][(WithinCallbackStep /\ pc' = "convert")
          => /\ Len(expr') = Len(expr) + 2
             /\ SubSeq(expr', 1, Len(expr) - 1) = SubSeq(expr, 1, Len(expr) - 1)
             /\ expr'[Len(expr)] =
                    <<"WebElement ", ScopeVar(tempVarIndex), " = ">> \o expr[Len(expr)]
             /\ expr'[Len(expr')] = <<ScopeVar(tempVarIndex)>>
             /\ Cardinality(ScopeDeclarations(expr', tempVarIndex'))
                    = Cardinality(ScopeDeclarations(expr, tempVarIndex')) + 1
             /\ tempVarIndex' > tempVarIndex]_vars

C2_Witness ==
    /\ pc = "convert"
    /\ i = 2
    /\ chain = <<GetA, Verb1("within", BlockCallback), Verb("click")>>
    /\ Len(expr) = 3
    /\ expr[1] = <<"WebElement ", "scopeElement0", " = ", "driver", ".findElement", "(",
                   "By.cssSelector(", "\"#a\"", ")", ")">>
    /\ expr[3] = <<"scopeElement0">>

\* C3: the statements of the block body of a then callback are emitted after
\* the fragments of the steps that precede `then`, inside the chain's
\* statement block, with the receiver of the enclosing chain: the step writes
\* nothing to the output ahead of the block, keeps the fragments there are and
\* adds one fragment with the body's translation on that receiver.
C3_ThenBodyInOrder ==
    [][(ThenCallbackStep /\ HasChainStatement(Item.args[1]))
          => /\ output' = output
             /\ Len(expr') = Len(expr) + 1
             /\ SubSeq(expr', 1, Len(expr)) = expr
             /\ InList(expr'[Len(expr')], driverName)]_vars

DeclarationTypes == {"WebElement ", "List<WebElement> ", "JsonObject "}

\* Where the text declares a variable named with the counter (the root of a
\* request body has the fixed name `jsonObject`).
TempDeclarations(toks) ==
    {k \in 1..(Len(toks) - 1) :
        toks[k] \in DeclarationTypes /\ toks[k + 1] # "jsonObject"}

\* C4: no two temp declarations emitted in a run (elementN, elementsN,
\* scopeElementN, the builder variables of nested request bodies) share a
\* name, whatever chains, callbacks and request bodies were translated.
C4_TempNamesUnique ==
    \A k1, k2 \in TempDeclarations(Emitted) :
        Emitted[k1 + 1] = Emitted[k2 + 1] => k1 = k2

C4_Witness ==
    /\ pc = "done"
    /\ Cardinality(TempDeclarations(output)) >= 5
    /\ \E k \in TempDeclarations(output) : output[k + 1] = "scopeElement0"
    /\ \E k \in TempDeclarations(output) : output[k + 1] = "elements1"
    /\ \E k \in TempDeclarations(output) : output[k] = "JsonObject "

UnknownVerb(item) ==
    item.method \notin KnownVerbs /\ ~InList(ORIGINAL_COMMAND_LIST, item.method)

\* C7: a verb outside the vocabulary and the registry appends a diagnostic
\* naming the verb to the last fragment and the loop goes on to the next step;
\* a click that follows it is translated onto the fragment that holds the
\* diagnostic.
C7_UnknownVerbSoftFail ==
    [][/\ (AtItem /\ UnknownVerb(Item))
          => /\ pc' = "convert"
             /\ i' = i + 1
             /\ output' = output
             /\ expr' = AppendLast(expr,
                    <<"/* unsupported ", "method: ", Item.method, "(",
                      restorationChain(Item), ") */">>)
       /\ (AtItem /\ i >= 1 /\ UnknownVerb(chain[i]) /\ Item.method = "click")
          => /\ pc' = "convert"
             /\ InList(LastFragment(expr), "/* unsupported ")
             /\ expr' = AppendLast(expr, <<".click()">>)]_vars

C7_Witness ==
    /\ pc = "done"
    /\ chain = <<GetA, Verb("bogus"), Verb("click")>>
    /\ \E k \in 1..Len(output) :
           /\ output[k] = "/* unsupported "
           /\ output[k + 2] = "bogus"
           /\ \E m \in (k + 3)..Len(output) : output[m] = ".click()"

ArgumentVerbs ==
    {"get", "find", "contains", "type", "visit", "request", "eq", "should", "wait",
     "then", "within"}

\* C8: a known verb called without its argument adds a diagnostic to the
\* statement and the translation goes on to the next step: it never throws.
C8_MalformedArgumentsNonFatal ==
    [][(AtItem /\ Item.method \in ArgumentVerbs /\ ~HasArg(Item))
          => /\ pc' = "convert"
             /\ DiagnosticCount(Flatten(expr')) > DiagnosticCount(Flatten(expr))]_vars

\* C9: a then or a within whose first argument is no function adds a
\* diagnostic to the statement buffer.
C9_NonCallbackDiagnostic ==
    [][(AtItem /\ Item.method \in {"then", "within"} /\ HasArg(Item)
              /\ ~FunctionLike(Item))
          => DiagnosticCount(Flatten(expr')) > DiagnosticCount(Flatten(expr))]_vars

EqZero == Verb1("eq", NumericLiteral("0"))

\* C10: for every selector and receiver, from the same counter,
\* get(sel).first() gives the statement that get(sel).eq(0) gives, a lookup
\* in the multi-element form indexed with 0, and the temp-variable counter
\* stays as it was.
C10_FirstIsEqZero ==
    [][(AtItem /\ Item.method = "first" /\ i = 1 /\ Len(chain) = 2
              /\ chain[1].method = "get" /\ HasArg(chain[1]))
          => /\ tempVarIndex' = tempVarIndex
             /\ JoinStatement(expr', indentDepth') =
                    convertCyChainToJava(TState(<<>>, output, tempVarIndex, indentDepth),
                                         <<chain[1], EqZero>>, driverName, Env).text
             /\ convertCyChainToJava(TState(<<>>, output, tempVarIndex, indentDepth),
                                     <<chain[1], EqZero>>, driverName, Env)
                    .state.tempVarIndex = tempVarIndex
             /\ expr' = << <<driverName, FindToken(1), "(", "By.cssSelector(",
                            escapeJavaString(chain[1].args[1]), ")", ")", ".get(0)">> >>]_vars

RemoveAt(seq, k) == SubSeq(seq, 1, k - 1) \o SubSeq(seq, k + 1, Len(seq))

\* An assertion chain is being translated and visitNode appends its statement.
ExpectStep == pc = "extracted" /\ program # <<>> /\ chain[1].method = "expect"

\* The text the step appended to the output, without the closing newline.
Appended == SubSeq(output', Len(output) + 1, Len(output') - 1)

\* `expect(x).to.equal(y)` or `expect(x).to.deep.equal(y)`, with eq for equal.
IsEqualChain(ch) ==
    /\ Len(ch) \in {3, 4}
    /\ HasArg(ch[1])
    /\ ch[2].method = "to"
    /\ Len(ch) = 4 => ch[3].method = "deep"
    /\ ch[Len(ch)].method \in {"equal", "eq"}
    /\ HasArg(ch[Len(ch)])

\* The words convertExpectChainToJava has a case for.
ExpectVocabulary ==
    {"expect", "to", "be", "and", "have", "that", "with", "true", "false", "null",
     "undefined", "eq", "equal", "deep", "lessThan", "greaterThan"}

InVocabulary(ch) == \A k \in 1..Len(ch) : ch[k].method \in ExpectVocabulary

\* C11: for every target x and expected value y, expect(x).to.equal(y) and
\* expect(x).to.deep.equal(y) give the same assertion statement, the equality
\* matcher with y in the expected slot and x in the target slot; a `deep`
\* followed by equal/eq is taken with it as one item, so a chain of words of
\* the vocabulary gives the same statement without the `deep`.
C11_DeepEqualIsEqual ==
    [][ExpectStep =>
          /\ \A k \in 2..(Len(chain) - 1) :
                 (/\ InVocabulary(chain)
                  /\ chain[k].method = "deep"
                  /\ chain[k + 1].method \in {"equal", "eq"})
                     => Appended = getIndent(indentDepth)
                            \o convertExpectChainToJava(RemoveAt(chain, k), indentDepth)
          /\ IsEqualChain(chain)
                 => Appended = getIndent(indentDepth) \o getIndent(indentDepth)
                        \o <<"AssertJUnit.assertEquals(",
                             GetText(chain[Len(chain)].args[1]), ", ",
                             escapeJavaString(chain[1].args[1]), ");">>]_vars

C11_Witness ==
    /\ pc = "walk"
    /\ program = <<>>
    /\ chain = <<Verb1("expect", StringLiteral("hi")), Verb("to"), Verb("deep"),
                 Verb1("equal", Identifier("n"))>>
    /\ \E k \in 1..Len(output) :
           SubSeq(output, k, k + 4) =
               <<"AssertJUnit.assertEquals(", "n", ", ", "\"hi\"", ");">>

\* The number of tokens of `code` that are `token`.
Count(code, token) == Cardinality({k \in 1..Len(code) : code[k] = token})

\* The lines of the method whose signature line is `signature`: what stands
\* between the signature line and the line of the first "}" after it.
MethodLines(code, signature) ==
    LET k == CHOOSE n \in 1..Len(code) : code[n] = signature
        m == CHOOSE n \in (k + 1)..Len(code) :
                 code[n] = "}" /\ \A q \in (k + 1)..(n - 1) : code[q] # "}"
    IN  SubSeq(code, k + 2, m - 2)

Holds(code, part) ==
    \E k \in 0..(Len(code) - Len(part)) : SubSeq(code, k + 1, k + Len(part)) = part

ScenarioStatements(url, a, t, b) ==
    getIndent(2) \o <<"driver", ".get(", escapeJavaString(StringLiteral(url)), ")", ";", "\n">>
        \o getIndent(2)
        \o <<"driver", ".findElement", "(", "By.cssSelector(",
              escapeJavaString(StringLiteral(a)), ")", ")", ".sendKeys(",
              ReplaceSpecialKeys(escapeJavaString(StringLiteral(t))), ")", ";", "\n">>
        \o getIndent(2)
        \o <<"driver", ".findElement", "(", "By.cssSelector(",
              escapeJavaString(StringLiteral(b)), ")", ")", ".click()", ";", "\n">>

\* C12: a suite with one `it` whose body is visit(url); get(a).type(t);
\* get(b).click() and no hooks yields a written class that holds the default
\* setup hook, the default teardown hook and exactly one test method, whose
\* body is exactly the three statements navigate, find + sendKeys, find +
\* click, in source order.
C12_ScenarioOne ==
    \A url \in ScenarioUrls, a \in ScenarioSelectors, t \in ScenarioTexts,
       b \in ScenarioSelectors :
        (pc = "done" /\ file = Suite(<<It("it", LogsIn, Scenario(url, a, t, b))>>))
            => /\ outFile.written
               /\ outFile.name = "LoginpageTest.java"
               /\ Holds(outFile.code,
                        <<"public void setup() {", "\n", "        ",
                          "ChromeOptions options = new ChromeOptions().addArguments(\"--headless\");",
                          "\n", "        ", "driver = new OriginalWebDriver(options);",
                          "\n", "    ", "}">>)
               /\ Holds(outFile.code,
                        <<"public void end() {", "\n", "        ", "driver.quit();",
                          "\n", "    ", "}">>)
               /\ Count(outFile.code, "@Test") = 1
               /\ Count(outFile.code, "public void logs_in() throws Exception {") = 1
               /\ MethodLines(outFile.code, "public void logs_in() throws Exception {")
                      = ScenarioStatements(url, a, t, b)
               /\ Count(MethodLines(outFile.code,
                                    "public void logs_in() throws Exception {"), ";") = 3

C12_Witness ==
    /\ pc = "done"
    /\ file = Suite(<<It("it", LogsIn, Scenario("/login", "#u", "bob", "#btn"))>>)
    /\ outFile.written
    /\ Holds(outFile.code,
             <<"driver", ".findElement", "(", "By.cssSelector(", "\"#u\"", ")", ")",
               ".sendKeys(", "\"bob\"", ")", ";">>)
    /\ Holds(outFile.code, <<"@AfterMethod", "\n", "    ", "public void end() {">>)

\* C13: get(sel).last() leaves exactly two fragments, the declaration of the
\* list variable elementsN bound to the multi-element lookup of sel and the
\* expression elementsN.get(elementsN.size() - 1); no single-element lookup
\* is left, and the temp-variable counter goes up by exactly one.
C13_LastTwoStatements ==
    [][(AtItem /\ Item.method = "last" /\ i = 1 /\ Len(chain) = 2
              /\ chain[1].method = "get" /\ HasArg(chain[1]))
          => /\ tempVarIndex' = tempVarIndex + 1
             /\ ~InList(Flatten(expr'), FindToken(0))
             /\ expr' = << <<"List<WebElement> ", ElementsVar(tempVarIndex), " = ",
                            driverName, FindToken(1), "(", "By.cssSelector(",
                            escapeJavaString(chain[1].args[1]), ")", ")">>,
                          <<ElementsVar(tempVarIndex), ".get(",
                            ElementsVar(tempVarIndex), ".size() - 1)">> >>]_vars

ShouldStep(condition) ==
    /\ AtItem
    /\ Item.method = "should"
    /\ HasArg(Item)
    /\ Item.args[1] = StringLiteral(condition)

AssertTokens == {"AssertJUnit.assertTrue(", "AssertJUnit.assertFalse("}

\* C14: should('not.exist') turns the last fragment into, in this order, the
\* opening of a try block, the lookup as it was, the unconditional
\* AssertJUnit.fail call and the catch clause for NoSuchElementException; the
\* temp-variable counter stays as it was and no assertTrue / assertFalse
\* fragment is pushed. For get(sel).should('not.exist') these four are the
\* whole buffer.
C14_NotExistTryCatch ==
    [][ShouldStep("not.exist")
          => /\ Len(expr') = Len(expr) + 3
             /\ SubSeq(expr', 1, Len(expr) - 1) = SubSeq(expr, 1, Len(expr) - 1)
             /\ expr'[Len(expr)] = <<"try {">>
             /\ expr'[Len(expr) + 1] = <<"    ">> \o LastFragment(expr)
             /\ expr'[Len(expr) + 2] =
                    <<"    ", "AssertJUnit.fail(\"Element should not exist\")">>
             /\ expr'[Len(expr) + 3] = <<"} catch (NoSuchElementException e) {}">>
             /\ tempVarIndex' = tempVarIndex
             /\ output' = output
             /\ \A k \in Len(expr)..Len(expr') :
                    \A t \in AssertTokens : ~InList(expr'[k], t)
             /\ (i = 1 /\ Len(chain) = 2 /\ chain[1].method = "get" /\ HasArg(chain[1]))
                    => expr' = << <<"try {">>,
                                 <<"    ", driverName, FindToken(0), "(", "By.cssSelector(",
                                   escapeJavaString(chain[1].args[1]), ")", ")">>,
                                 <<"    ", "AssertJUnit.fail(\"Element should not exist\")">>,
                                 <<"} catch (NoSuchElementException e) {}">> >>]_vars

C14_Witness ==
    /\ pc = "walk"
    /\ chain = <<GetA, Verb1("should", StringLiteral("not.exist"))>>
    /\ tempVarIndex = 0
    /\ Holds(output,
             <<"try {", ";", "\n", "        ", "    ", "driver", ".findElement", "(",
               "By.cssSelector(", "\"#a\"", ")", ")", ";", "\n", "        ", "    ",
               "AssertJUnit.fail(\"Element should not exist\")", ";", "\n", "        ",
               "} catch (NoSuchElementException e) {}", ";", "\n">>)

IsPostOptions(options) ==
    /\ options.kind = "obj"
    /\ Len(options.kids) = 3
    /\ \E u, m, b \in 1..3 :
           /\ {u, m, b} = 1..3
           /\ options.kids[u].text = "url" /\ options.kids[u].kids[1].kind = "str"
           /\ options.kids[m] = PropertyAssignment("method", StringLiteral("post"))
           /\ options.kids[b] = PropertyAssignment("body", PostBody)

UrlOf(options) ==
    (CHOOSE p \in {options.kids[k] : k \in 1..Len(options.kids)} : p.text = "url").kids[1]

\* C15: request({ url, method: 'post', body: { a: 1 } }) as the first and
\* only step leaves no fragment of the receiver the buffer was seeded with,
\* and the buffer is, in this order: the connection opened on url, the method
\* set to POST, output enabled, the payload object, its single key a mapped
\* to 1, the payload serialized, and the bytes written.
C15_PostRequest ==
    [][(AtItem /\ Item.method = "request" /\ i = 0 /\ Len(chain) = 1 /\ HasArg(Item)
              /\ IsPostOptions(Item.args[1]))
          => /\ expr = <<<<driverName>>>>
             /\ ~InList(Flatten(expr'), driverName)
             /\ tempVarIndex' = tempVarIndex
             /\ expr' = << <<"HttpURLConnection ", "conn", " = ",
                            "(HttpURLConnection) new URL(",
                            escapeJavaString(UrlOf(Item.args[1])), ").openConnection()">>,
                          <<"conn.setRequestMethod(\"POST\")">>,
                          <<"conn.setDoOutput(true)">>,
                          <<"JsonObject ", "jsonObject", " = ", "new JsonObject()">>,
                          <<"jsonObject", ".addProperty(", "\"a\"", ", ", "1", ")">>,
                          <<"String ", "inputString", " = ", "jsonObject.toString()">>,
                          <<"try(OutputStream os = conn.getOutputStream()) {">>,
                          <<"    ", "byte[] ", "input", " = ",
                            "inputString.getBytes(\"utf-8\")">>,
                          <<"    ", "os.write(input, 0, input.length)">>,
                          <<"}">> >>]_vars

C15_Witness ==
    /\ pc = "walk"
    /\ chain = <<Verb1("request", PostOptions("/api"))>>
    /\ Holds(output,
             <<"HttpURLConnection ", "conn", " = ", "(HttpURLConnection) new URL(",
               "\"/api\"", ").openConnection()", ";", "\n", "        ",
               "conn.setRequestMethod(\"POST\")", ";", "\n", "        ",
               "conn.setDoOutput(true)", ";">>)
    /\ Holds(output, <<"jsonObject", ".addProperty(", "\"a\"", ", ", "1", ")", ";">>)

\* A top-level definition whose name is no string literal or whose second
\* argument is no function.
Malformed(node) ==
    /\ IsDefinition(node)
    /\ LET args == Arguments(node.kids[1])
       IN  \/ Len(args) < 2
           \/ args[1].kind # "str"
           \/ args[2].kind # "arrow"

HasMalformed ==
    file.mode = "collect" /\ \E k \in 1..Len(file.nodes) : Malformed(file.nodes[k])

\* C16: the collect run stops with an error at a malformed definition, and
\* nothing follows the error; in a run whose input has a malformed
\* definition the driver-subclass file is never written and the persisted
\* registry stays what it was when the run began.
C16_MalformedDefinitionFatal ==
    /\ [][/\ (pc = "collect" /\ memberIndex < Len(file.nodes) /\ Malformed(StatementNode))
              => (pc' = "threw" /\ outFile' = outFile /\ registryFile' = registryFile)
          /\ pc # "threw"]_vars
    /\ [](HasMalformed => (~outFile.written /\ registryFile = <<"login">> /\ pc # "done"))

C16_Witness ==
    /\ pc = "threw"
    /\ file = CommandFile(<<Command("logout", <<>>, OneStatement),
                            Definition(<<StringLiteral("press"), StringLiteral("handler")>>)>>)
    /\ memberIndex = 1
    /\ ORIGINAL_COMMAND_LIST = <<"logout">>
    /\ Len(methods) = 1
    /\ registryFile = <<"login">>
    /\ ~outFile.written

Definitions == SelectSeq(file.nodes, IsDefinition)
DefinedName(k) == Arguments(Definitions[k].kids[1])[1].text
DefinedFunction(k) == Arguments(Definitions[k].kids[1])[2]

EndsWith(code, part) ==
    Len(code) >= Len(part) /\ SubSeq(code, Len(code) - Len(part) + 1, Len(code)) = part

\* C17: when a collect run has ended without an error, the persisted
\* registry is the names of the input's definitions in source order and
\* nothing else; there is one generated method per definition, in the same
\* order, each with the definition's name in its signature and `return this;`
\* as its last statement, and the written class holds them in that order.
C17_RegistryInSourceOrder ==
    (pc = "done" /\ file.mode = "collect")
        => /\ Len(registryFile) = Len(Definitions)
           /\ \A k \in 1..Len(Definitions) : registryFile[k] = DefinedName(k)
           /\ Len(methods) = Len(Definitions)
           /\ \A k \in 1..Len(Definitions) :
                  /\ SubSeq(methods[k], 1, 3) =
                         <<"    ",
                           "public OriginalWebDriver " \o DefinedName(k) \o "("
                               \o JoinParameters(Parameters(DefinedFunction(k)))
                               \o ") throws Exception {",
                           "\n">>
                  /\ EndsWith(methods[k],
                              <<"\n", "        ", "return this;", "\n", "    ", "}", "\n">>)
                  /\ Count(methods[k], "return this;") = 1
           /\ outFile.written
           /\ outFile.name = "OriginalWebDriver.java"
           /\ Holds(outFile.code, JoinWith(methods, <<"\n\n">>))

C17_Witness ==
    /\ pc = "done"
    /\ file.mode = "collect"
    /\ registryFile = <<"logout", "login">>
    /\ Len(methods) = 2
    /\ methods[2][2] = "public OriginalWebDriver login(String user, String pw) throws Exception {"
    /\ Holds(outFile.code, <<"this", ".logout()", ";", "\n", "\n", "        ",
                             "return this;", "\n", "    ", "}", "\n", "\n", "}", "\n">>)

\* C18: a contains step (with its text argument) is an assertion exactly when
\* it is the last step of a chain of more than one step: the last fragment
\* becomes the declaration of elementN, one assertTrue fragment on
\* elementN.getText().contains(text) is pushed, and the counter goes up by
\* one. In every other position, a chain of one step included, the last
\* fragment gets a single-element lookup by an XPath text-contains locator,
\* no fragment is pushed and the counter stays.
C18_ContainsByPosition ==
    [][(AtItem /\ Item.method = "contains" /\ HasArg(Item))
          => /\ output' = output
             /\ SubSeq(expr', 1, Len(expr) - 1) = SubSeq(expr, 1, Len(expr) - 1)
             /\ IF Len(chain) > 1 /\ i = Len(chain) - 1
                THEN /\ Len(expr') = Len(expr) + 1
                     /\ expr'[Len(expr)] =
                            <<"WebElement ", ElementVar(tempVarIndex), " = ">>
                                \o LastFragment(expr)
                     /\ expr'[Len(expr) + 1] =
                            <<"AssertJUnit.assertTrue(", ElementVar(tempVarIndex),
                              ".getText().contains(", escapeJavaString(Item.args[1]), "))">>
                     /\ tempVarIndex' = tempVarIndex + 1
                ELSE /\ Len(expr') = Len(expr)
                     /\ expr'[Len(expr)] =
                            LastFragment(expr)
                                \o <<".findElement", "(", "By.xpath(\"//*[contains(text(), '",
                                      StripQuotes(Item.args[1]), "')]\")", ")">>
                     /\ tempVarIndex' = tempVarIndex]_vars

C18_Witness ==
    /\ pc = "walk"
    /\ chain = <<GetA, Verb1("contains", StringLiteral("hi"))>>
    /\ tempVarIndex = 1
    /\ Holds(output,
             <<"WebElement ", "element0", " = ", "driver", ".findElement", "(",
               "By.cssSelector(", "\"#a\"", ")", ")", ";", "\n", "        ",
               "AssertJUnit.assertTrue(", "element0", ".getText().contains(", "\"hi\"",
               "))", ";", "\n">>)

VisibleAssertion(condition) ==
    IF condition = "be.visible" THEN "AssertJUnit.assertTrue(" ELSE "AssertJUnit.assertFalse("

\* C19: should('be.visible') asserts assertTrue on isDisplayed() and
\* should('not.be.visible') asserts assertFalse on isDisplayed(): the last
\* fragment becomes `WebElement elementN = <fragment>`, then comes one
\* assertion fragment on elementN, then a fragment that is exactly elementN,
\* and the counter goes up by exactly one.
C19_ShouldVisible ==
    [][\A condition \in {"be.visible", "not.be.visible"} :
          ShouldStep(condition)
             => /\ Len(expr') = Len(expr) + 2
                /\ SubSeq(expr', 1, Len(expr) - 1) = SubSeq(expr, 1, Len(expr) - 1)
                /\ expr'[Len(expr)] =
                       <<"WebElement ", "element" \o ToString(tempVarIndex), " = ">>
                           \o LastFragment(expr)
                /\ expr'[Len(expr) + 1] =
                       <<VisibleAssertion(condition), "element" \o ToString(tempVarIndex),
                         ".isDisplayed())">>
                /\ expr'[Len(expr) + 2] = <<"element" \o ToString(tempVarIndex)>>
                /\ tempVarIndex' = tempVarIndex + 1
                /\ output' = output]_vars

C19_Witness ==
    /\ pc = "walk"
    /\ chain = <<GetA, Verb1("should", StringLiteral("not.be.visible")), Verb("click")>>
    /\ tempVarIndex = 1
    /\ Holds(output,
             <<"WebElement ", "element0", " = ", "driver", ".findElement", "(",
               "By.cssSelector(", "\"#a\"", ")", ")", ";", "\n", "        ",
               "AssertJUnit.assertFalse(", "element0", ".isDisplayed())", ";", "\n",
               "        ", "element0", ".click()", ";", "\n">>)

ShouldConditions == {"be.visible", "not.be.visible", "not.exist"}

\* The diagnostic of a should step that has no string-literal argument, or
\* whose descriptor is none of the three the switch knows.
ShouldDiagnostic(item) ==
    IF ~HasArg(item) \/ item.args[1].kind # "str"
    THEN <<"/* unsupported ", "should", " syntax(", restorationChain(item), ") */">>
    ELSE <<"/* unsupported ", "should", " condition: ", item.args[1].text, "(",
           restorationChain(item), ") */">>

\* C20: a should step with no argument, with an argument that is no string
\* literal, or with a descriptor outside be.visible / not.be.visible /
\* not.exist appends an inline diagnostic to the last fragment and changes
\* nothing else: no fragment is pushed, no assertion appears, the counter
\* and the output stay, and the loop goes on to the next step.
C20_ShouldDiagnostic ==
    [][(AtItem /\ Item.method = "should"
              /\ (~HasArg(Item) \/ Item.args[1].kind # "str"
                     \/ Item.args[1].text \notin ShouldConditions))
          => /\ Len(expr') = Len(expr)
             /\ SubSeq(expr', 1, Len(expr) - 1) = SubSeq(expr, 1, Len(expr) - 1)
             /\ expr'[Len(expr)] = LastFragment(expr) \o ShouldDiagnostic(Item)
             /\ \A t \in AssertTokens : ~InList(ShouldDiagnostic(Item), t)
             /\ tempVarIndex' = tempVarIndex
             /\ output' = output
             /\ pc' = "convert"
             /\ i' = i + 1]_vars

C20_Witness ==
    /\ pc = "walk"
    /\ chain = <<GetA, Verb1("should", StringLiteral("have.text")), Verb("click")>>
    /\ tempVarIndex = 0
    /\ Holds(output,
             <<"driver", ".findElement", "(", "By.cssSelector(", "\"#a\"", ")", ")",
               "/* unsupported ", "should", " condition: ", "have.text", "(",
               ".should('have.text')", ") */", ".click()", ";", "\n">>)

\* C21: across the steps of a chain the number of buffered fragments never
\* goes down, except at a request that is the first item, after which the
\* seeded receiver fragment is gone; a request at a later position keeps
\* every earlier fragment as it was.
C21_BufferClearedOnlyByFirstRequest ==
    [][(AtItem /\ pc' = "convert")
          => IF Item.method = "request" /\ i = 0
             THEN /\ expr = <<<<driverName>>>>
                  /\ \A k \in 1..Len(expr') : expr'[k] # <<driverName>>
                  /\ ~InList(Flatten(expr'), driverName)
             ELSE /\ Len(expr') >= Len(expr)
                  /\ Item.method = "request" => SubSeq(expr', 1, Len(expr)) = expr]_vars

C21_Witness ==
    /\ pc = "convert"
    /\ i = 2
    /\ chain = <<GetA, Verb1("request", StringLiteral("/api")), Verb("click")>>
    /\ expr = << <<"driver", ".findElement", "(", "By.cssSelector(", "\"#a\"", ")", ")">>,
                 <<"HttpURLConnection ", "conn", " = ", "(HttpURLConnection) new URL(",
                   "\"/api\"", ").openConnection()">>,
                 <<"conn.setRequestMethod(\"GET\")">> >>

IsConnective(item) == item.method \in {"to", "be", "and", "have", "that", "with"}
IsWord(item) == ~IsConnective(item)

\* The chain without its connective tokens.
WithoutConnectives(ch) == SelectSeq(ch, IsWord)

\* C22: the connective tokens to / be / and / have / that / with are no-ops:
\* an assertion chain of recognized tokens gives the statement that the same
\* chain without any of its connectives gives, wherever they stand after the
\* expect(...) head, so chains that differ only in connectives give the same
\* statement.
C22_ConnectivesAreNoOps ==
    [][(ExpectStep /\ InVocabulary(chain))
          => /\ Appended = getIndent(indentDepth)
                    \o convertExpectChainToJava(WithoutConnectives(chain), indentDepth)
             /\ tempVarIndex' = tempVarIndex]_vars

C22_Witness ==
    /\ pc = "walk"
    /\ program = <<>>
    /\ chain = <<Verb1("expect", Identifier("x")), Verb("to"), Verb("with"),
                 Verb1("equal", NumericLiteral("1"))>>
    /\ Holds(output, <<"AssertJUnit.assertEquals(", "1", ", ", "x", ");", "\n">>)

TerminalMatchers == {"true", "false", "null", "undefined", "eq", "equal"}

HasTerminal(ch) == \E k \in 2..Len(ch) : ch[k].method \in TerminalMatchers

\* The index of the first terminal matcher of the chain; a deep-equal pair
\* ends at its equal.
FirstTerminal(ch) ==
    CHOOSE k \in 2..Len(ch) :
        /\ ch[k].method \in TerminalMatchers
        /\ \A j \in 2..(k - 1) : ch[j].method \notin TerminalMatchers

\* C23: once the first terminal matcher (true, false, null, undefined, eq,
\* equal, deep-equal) of an assertion chain of recognized tokens is seen, the
\* assertion is final: exactly one statement is emitted, and it is the
\* statement of the chain cut after that matcher, whatever recognized tokens
\* follow.
C23_TerminalMatcherFinal ==
    [][(ExpectStep /\ InVocabulary(chain) /\ HasArg(chain[1]) /\ HasTerminal(chain))
          => /\ Appended = getIndent(indentDepth)
                    \o convertExpectChainToJava(SubSeq(chain, 1, FirstTerminal(chain)),
                                                indentDepth)
             /\ Count(Appended, "\n") = 0]_vars

\* The object-literal body of a request's options, when there is one.
HasObjectBody(item) ==
    /\ HasArg(item)
    /\ item.args[1].kind = "obj"
    /\ \E k \in 1..Len(item.args[1].kids) :
           item.args[1].kids[k].text = "body" /\ item.args[1].kids[k].kids[1].kind = "obj"
    /\ Cardinality({k \in 1..Len(item.args[1].kids) :
                        item.args[1].kids[k].text = "body"}) = 1

BodyOf(item) ==
    (CHOOSE p \in {item.args[1].kids[k] : k \in 1..Len(item.args[1].kids)} :
         p.text = "body").kids[1]

\* The properties of a body tree whose value is an object literal, and those
\* whose value is a scalar, at every depth.
RECURSIVE NestedCount(_)
NestedCount(props) ==
    IF props = <<>> THEN 0
    ELSE (IF props[1].kids[1].kind = "obj"
          THEN 1 + NestedCount(props[1].kids[1].kids) ELSE 0)
             + NestedCount(Tail(props))

RECURSIVE ScalarCount(_)
ScalarCount(props) ==
    IF props = <<>> THEN 0
    ELSE (IF props[1].kids[1].kind = "obj"
          THEN ScalarCount(props[1].kids[1].kids) ELSE 1)
             + ScalarCount(Tail(props))

\* The fragments the body builder pushed: from the root declaration to the
\* serialize-to-string statement.
BuilderFragments(buf) ==
    LET first == CHOOSE k \in 1..Len(buf) : buf[k] = <<"conn.setDoOutput(true)">>
        last == CHOOSE k \in 1..Len(buf) :
                    buf[k] = <<"try(OutputStream os = conn.getOutputStream()) {">>
    IN  SubSeq(buf, first + 1, last - 1)

IsBuilderDeclaration(frag) == frag[1] = "JsonObject "
IsAttach(frag, v) == Len(frag) = 6 /\ frag[2] = ".add(" /\ frag[5] = v

WellNested(B) ==
    \A d \in 2..Len(B) :
        IsBuilderDeclaration(B[d])
            => /\ Cardinality({a \in 1..Len(B) : IsAttach(B[a], B[d][2])}) = 1
               /\ \A a \in 1..Len(B) :
                      IsAttach(B[a], B[d][2])
                          => /\ d < a
                             /\ \A j \in 1..Len(B) :
                                    (j # d /\ B[j][1] = B[d][2]) => (d < j /\ j < a)
               /\ \A e \in 2..Len(B) :
                      (IsBuilderDeclaration(B[e]) /\ e # d) => B[e][2] # B[d][2]

\* C24: for the object-literal body of a request, every property whose value
\* is an object literal declares exactly one new builder variable; the
\* declaration comes before every statement on that variable, and those come
\* before the one statement that attaches it to its parent; every scalar
\* property gives exactly one addProperty statement; the root declaration is
\* first and the serialize-to-string statement last; the counter goes up by
\* the number of nested objects.
C24_NestedBodyBuilder ==
    [][(AtItem /\ Item.method = "request" /\ HasObjectBody(Item))
          => LET B == BuilderFragments(SubSeq(expr', Len(IF i = 0 THEN <<>> ELSE expr) + 1,
                                              Len(expr')))
                 props == BodyOf(Item).kids
             IN  /\ B[1] = <<"JsonObject ", "jsonObject", " = ", "new JsonObject()">>
                 /\ B[Len(B)] = <<"String ", "inputString", " = ", "jsonObject.toString()">>
                 /\ Len(B) = 2 + 2 * NestedCount(props) + ScalarCount(props)
                 /\ Cardinality({k \in 2..Len(B) : IsBuilderDeclaration(B[k])})
                        = NestedCount(props)
                 /\ Cardinality({k \in 1..Len(B) : B[k][2] = ".addProperty("})
                        = ScalarCount(props)
                 /\ Cardinality({k \in 1..Len(B) : B[k][2] = ".add("}) = NestedCount(props)
                 /\ WellNested(B)
                 /\ tempVarIndex' = tempVarIndex + NestedCount(props)
                 /\ BodyOf(Item) = DeepBody
                        => B = << <<"JsonObject ", "jsonObject", " = ", "new JsonObject()">>,
                                 <<"JsonObject ", "\"a\"Inner" \o ToString(tempVarIndex),
                                   " = ", "new JsonObject()">>,
                                 <<"JsonObject ", "\"b\"Inner" \o ToString(tempVarIndex + 1),
                                   " = ", "new JsonObject()">>,
                                 <<"\"b\"Inner" \o ToString(tempVarIndex + 1),
                                   ".addProperty(", "\"c\"", ", ", "1", ")">>,
                                 <<"\"a\"Inner" \o ToString(tempVarIndex), ".add(", "\"b\"",
                                   ", ", "\"b\"Inner" \o ToString(tempVarIndex + 1), ")">>,
                                 <<"\"a\"Inner" \o ToString(tempVarIndex), ".addProperty(",
                                   "\"e\"", ", ", "\"x\"", ")">>,
                                 <<"jsonObject", ".add(", "\"a\"", ", ",
                                   "\"a\"Inner" \o ToString(tempVarIndex), ")">>,
                                 <<"jsonObject", ".addProperty(", "\"d\"", ", ", "2", ")">>,
                                 <<"JsonObject ", "\"f\"Inner" \o ToString(tempVarIndex + 2),
                                   " = ", "new JsonObject()">>,
                                 <<"jsonObject", ".add(", "\"f\"", ", ",
                                   "\"f\"Inner" \o ToString(tempVarIndex + 2), ")">>,
                                 <<"String ", "inputString", " = ",
                                   "jsonObject.toString()">> >>]_vars

C24_Witness ==
    /\ pc = "convert"
    /\ i = 1
    /\ Len(chain) = 1
    /\ chain[1].method = "request"
    /\ HasObjectBody(chain[1])
    /\ BodyOf(chain[1]) = DeepBody
    /\ tempVarIndex = 3
    /\ \E k \in 1..Len(expr) :
           expr[k] = <<"\"a\"Inner0", ".add(", "\"b\"", ", ", "\"b\"Inner1", ")">>

\* The number of spaces a line of tokens starts with.
IsSpaces(tok) == \E n \in 1..(8 * TAB_SIZE) : tok = Repeat(" ", n)

RECURSIVE LeadingSpaces(_)
LeadingSpaces(toks) ==
    IF toks = <<>> \/ ~IsSpaces(toks[1]) THEN 0
    ELSE Len(toks[1]) + LeadingSpaces(Tail(toks))

\* C25: the statement the walker appends for a call-expression statement
\* starts, at depth d, with exactly TAB_SIZE * d spaces, for an element chain
\* and for an expect chain alike.
C25_FirstLineAtCurrentIndent ==
    [][((pc = "convert" /\ i = Len(chain)) \/ ExpectStep) /\ pc' = "walk"
          => LeadingSpaces(Appended) = TAB_SIZE * indentDepth]_vars

\* The depth at the entry of what the program is doing: 0 in main and 1 in a
\* commands file, 1 at class level of a describe block, 2 in the body of a
\* hook, a test or a command.
EntryDepth ==
    CASE pc = "main" -> 0
      [] pc \in {"describe", "collect"} -> 1
      [] pc = "done" -> IF file.mode = "convert" THEN 0 ELSE 1
      [] OTHER -> IF member.kind = "class" THEN 1 ELSE 2

\* C26: the indentation depth is never negative; when the walker is between
\* two statements, or between the steps of one chain, the depth is the depth
\* the enclosing body was entered with, whatever control-flow statements and
\* callbacks were walked; when a hook, a test or a command is finished the
\* depth is back at the depth of its entry, and when the describe block is
\* finished it is back at 0.
C26_IndentDepthBalanced ==
    /\ indentDepth >= 0
    /\ pc # "threw" => indentDepth = EntryDepth

C26_Witness ==
    /\ pc = "walk"
    /\ program = <<>>
    /\ member.kind = "it"
    /\ indentDepth = 2
    /\ Holds(output, <<Repeat(" ", 2 * TAB_SIZE), "while (", "ok", ") {", "\n",
                       Repeat(" ", 3 * TAB_SIZE), "for (", "; ok; ", ") {", "\n">>)
    /\ Holds(output, <<Repeat(" ", 3 * TAB_SIZE), "}", "\n",
                       Repeat(" ", 2 * TAB_SIZE), "}", "\n">>)

\* An indexing verb that emits an index expression.
IsIndexing(item) ==
    \/ item.method \in {"first", "last"}
    \/ item.method = "eq" /\ HasArg(item) /\ item.args[1].kind = "num"

\* C27: when first, last or eq with a numeric literal emits an index
\* expression, the fragment that is indexed holds the multi-element lookup
\* spelled findElements: not the single-element lookup alone, nor a name
\* with the plural suffix added twice.
C27_IndexedLookupIsPlural ==
    [][(AtItem /\ IsIndexing(Item) /\ pc' = "convert")
          => LET frag == IF Item.method = "last" THEN expr'[Len(expr') - 1]
                         ELSE LastFragment(expr')
             IN  /\ InList(frag, FindToken(1))
                 /\ \A k \in 2..(MaxChainLen + 1) : ~InList(frag, FindToken(k))]_vars

\* The step of src/index.js reads, replaces or adds to the last fragment:
\* every handler but then, and request with an argument that is no string.
TouchesLast(item) ==
    \/ item.method \notin {"then", "request"}
    \/ item.method = "request" /\ HasArg(item) /\ item.args[1].kind = "str"

\* The buffer as the handler finds it when it touches the last fragment.
BufferAtTouch ==
    IF Item.method = "request" THEN (IF i = 0 THEN <<>> ELSE Append(expr, <<>>))
    ELSE expr

\* C28: in src/index.js the buffer is not empty when a handler replaces or
\* adds to its last fragment, so what the handler writes is in the buffer
\* afterwards; a first step request(<string literal>) leaves the declaration
\* of the connection followed by the GET statement.
C28_LastFragmentWritesKept ==
    [][(AtItem /\ pc' = "convert" /\ TouchesLast(Item))
          => /\ BufferAtTouch # <<>>
             /\ (Item.method = "request" /\ i = 0)
                   => expr' = << <<"HttpURLConnection ", "conn", " = ",
                                   "(HttpURLConnection) new URL(", GetText(Item.args[1]),
                                   ").openConnection()">>,
                                 <<"conn.setRequestMethod(\"GET\")">> >>]_vars

\* The names of the definitions of the commands file up to the one whose body
\* is being translated, that one included, in source order.
RECURSIVE NamesOf(_)
NamesOf(nodes) ==
    IF nodes = <<>> THEN <<>>
    ELSE <<Arguments(nodes[1].kids[1])[1].text>> \o NamesOf(Tail(nodes))

DefinedSoFar == NamesOf(SelectSeq(SubSeq(file.nodes, 1, memberIndex + 1), IsDefinition))

PassedThrough ==
    LastFragment(expr') =
        LastFragment(expr) \o <<"." \o Item.method \o "(" \o JoinTexts(Item.args) \o ")">>

\* C29: while a commands file is collected the registry holds the names of
\* the definitions read so far, the one being translated included, and no
\* name from the registry file. A step of a command body whose verb is no
\* fixed verb is passed through exactly when its name is among them, and
\* gets the unsupported-method diagnostic otherwise; a step whose verb is a
\* fixed verb is never passed through, whatever commands are defined (click
\* without arguments apart, where the two texts are the same).
C29_RegistryAtTranslation ==
    [][(AtItem /\ file.mode = "collect" /\ pc' = "convert")
          => /\ ORIGINAL_COMMAND_LIST = DefinedSoFar
             /\ IF Item.method \in KnownVerbs
                THEN (Item.method # "click" \/ Item.args # <<>>) => ~PassedThrough
                ELSE IF InList(DefinedSoFar, Item.method)
                THEN PassedThrough /\ Len(expr') = Len(expr)
                ELSE /\ ~PassedThrough
                     /\ expr' = AppendLast(expr,
                            <<"/* unsupported ", "method: ", Item.method, "(",
                              restorationChain(Item), ") */">>)]_vars

C29_Witness ==
    /\ pc = "done"
    /\ file.mode = "collect"
    /\ registryFile = <<"retry", "first", "close">>
    /\ Holds(methods[1], <<"this", ".retry()", ";", "\n">>)
    /\ Holds(methods[2], <<"this", "/* unsupported ", "method: ", "close", "(",
                           ".close()", ") */", ";", "\n">>)
    /\ Holds(methods[3], <<".findElements", "(", "By.cssSelector(", "\"#a\"", ")", ")",
                           ".get(0)", ";", "\n">>)
    /\ Holds(methods[3], <<"this", ".retry()", ";", "\n">>)
    /\ \A k \in 1..3 : Count(methods[k], ".first()") = 0

\* The places of the code where the tokens of part stand.
Occurrences(code, part) ==
    {k \in 0..(Len(code) - Len(part)) : SubSeq(code, k + 1, k + Len(part)) = part}

\* The declarations a request block makes under a fixed name.
RequestDeclarations ==
    {<<"HttpURLConnection ", "conn", " = ">>,
     <<"JsonObject ", "jsonObject", " = ">>,
     <<"String ", "inputString", " = ">>,
     <<"byte[] ", "input", " = ">>}

\* C30: the variables the request blocks of one run declare have pairwise
\* distinct names: no connection, payload builder, serialized string or byte
\* array is declared twice in the body of one generated command method.
C30_RequestNamesDistinct ==
    (file.mode = "collect" /\ member.kind = "command")
        => \A decl \in RequestDeclarations : Cardinality(Occurrences(output, decl)) <= 1

====
